---- MODULE Spec2Model ----
(***************************************************************************)
(* Flow execution engine of the ASEI integration-flow platform:            *)
(* ExecutionService (start / cancel), FlowExecutor (plan, per-node         *)
(* lifecycle, final update) and the flow / flow-version routes that feed   *)
(* it, over the flow_executions / execution_steps tables.                  *)
(*                                                                         *)
(* Every store call of a handler or of the executor is one step, so that   *)
(* other requests interleave between the awaits.  FlowExecutor.log only    *)
(* appends to execution_logs and swallows its own errors; those writes     *)
(* touch none of the tables below and are not separate steps.              *)
(***************************************************************************)
EXTENDS Integers, Sequences, FiniteSets, TLC

\* ---------------------------------------------------------------- bounds
MaxFlows    == 1   \* flow ids are 1..MaxFlows
MaxVersions == 2   \* versions saved per flow
MaxExec     == 1   \* flow_executions rows ever inserted
MaxTime     == 3   \* the store clock now() ranges over 0..MaxTime
MaxNodes    == 3   \* nodes of a graph handed to buildExecutionPlan
MaxEdges    == 3   \* edges of a graph handed to buildExecutionPlan
MaxVersionReqs == 2 \* POST /:id/versions requests in flight at once
MaxUsers    == 2   \* user ids are 1..MaxUsers
MaxRateLimit == 2  \* users.rate_limit ranges over 1..MaxRateLimit
MaxRequests == 3   \* requests that reach the rate gate
MaxHops     == 2   \* hops listed in an X-Forwarded-For header
MaxOrgs     == 2   \* org ids are 1..MaxOrgs
MaxIntegrations == 1   \* integrations rows ever inserted
MaxVerifications == 2  \* verifyAfterDelay tasks ever started
MaxEvents   == 2   \* socket events PATCH and DELETE requests add
MaxLogs     == 1   \* execution_logs rows per execution
MaxEmails   == 2   \* email addresses are 1..MaxEmails
MaxVerifyReqs == 2 \* POST /verify requests in flight at once
MaxTx       == 2   \* tx_events rows ever inserted
MaxSockets  == 1   \* socket clients are 1..MaxSockets

\* ---------------------------------------------------------------- values
NULL   == -1              \* SQL NULL of a timestamp / integer column
NoText == "NULL"          \* SQL NULL of a text column
NaN    == -1000           \* JavaScript NaN (undefined + 1), never equal to 0
Ghost  == 0               \* an id that is no node's id (dangling endpoint)

CycleMessage     == "Flow contains cycles or disconnected nodes"
TypeErrorMessage == "Cannot read properties of undefined (reading 'push')"
StructureMessage == "Invalid flow graph structure"
VersionMessage   == "Flow version not found"
HttpErrors       == {"timeout of 30000ms exceeded", "Network Error"}

MentionsCycles(msg) == msg = CycleMessage

Hour == 2                 \* 60 * 60 * 1000 ms, in ticks of the store clock
GracePeriod == 1          \* 30 days, where a tick of the clock is 30 days

VARIABLES
  now,              \* store clock: the value now() returns
  flows,            \* table flows: sequence of rows, id = index
  flow_versions,    \* table flow_versions: sequence of rows
  flow_executions,  \* table flow_executions: sequence of rows, id = index
  execution_steps,  \* table execution_steps: sequence of rows, id = index
  executor,         \* one FlowExecutor task per execution id
  startReq,         \* the POST /start handler between its two store calls
  response,         \* last response of POST /start
  planGraph,        \* input of buildExecutionPlan (plan specification)
  planOut,          \* its result
  versionReq,       \* the POST /:id/versions handlers between their store calls
  users,            \* table users: rate_limit and allow_ip_whitelist per user id
  api_rate_tracking,\* table api_rate_tracking: sequence of rows
  rateReq,          \* rateLimitMiddleware per request, between its store calls
  ip_whitelist,     \* table ip_whitelist: set of rows
  ipReq,            \* a request at ipWhitelistMiddleware and the gate's answer
  routeReq,         \* a request dispatched through the mounted middleware
  integrations,     \* table integrations: sequence of rows, id = index
  verifier,         \* verifyAfterDelay tasks
  bus,              \* events emitted on the socket rooms, in order
  connReq,          \* POST /api/connections between its store calls
  boot,             \* autoVerifyIntegrations: the check it is about to run,
                    \* the credentials in process.env, what each check learnt
  outbound,         \* an outbound HTTP target and what the caller did with it
  reqUser,          \* req.user.org of the client whose requests are served
  execution_logs,   \* table execution_logs: sequence of rows, id = index
  apiRes,           \* last answer of a flows / executions route
  delReq,           \* DELETE /api/executions/:executionId between its store calls
  accounts,         \* table users as the auth routes use it: email,
                    \* password_hash, deactivated_at; id = index
  pending_users,    \* table pending_users: set of rows
  signupReq,        \* the POST /verify handlers between their store calls
  authRes,          \* last answer of an auth route
  reactReq,         \* POST /reactivate between its store calls
  tx_events,        \* table tx_events: sequence of rows, id = index
  notifications,    \* table notifications: sequence of rows, id = index
  channel,          \* notifications_channel: payloads on their way to the
                    \* listening client
  listener,         \* setupDbListener: where its client stands
  principal,        \* org of the user each socket client is logged in as
  rooms,            \* rooms each socket has joined
  inbox             \* events each socket has received, in order

\* the tables and tasks of the engine other than the clock
engine == <<flows, flow_versions, flow_executions, execution_steps, executor,
            startReq, response, planGraph, planOut, versionReq>>

rateVars     == <<api_rate_tracking, rateReq>>
ipVars       == <<ip_whitelist, ipReq>>
routeVars    == <<routeReq>>
verifyVars   == <<integrations, verifier, bus, connReq, boot>>
outboundVars == <<outbound>>
tenantVars   == <<reqUser, execution_logs, apiRes, delReq>>
authVars     == <<accounts, pending_users, signupReq, authRes, reactReq>>
socketVars   == <<tx_events, notifications, channel, listener, principal,
                  rooms, inbox>>

\* the variables of the gateway subsystems, which the engine never touches
aside == <<users, rateVars, ipVars, routeVars, verifyVars, outboundVars,
           tenantVars, authVars, socketVars>>

vars == <<now, flows, flow_versions, flow_executions, execution_steps,
          executor, startReq, response, planGraph, planOut, versionReq, aside>>

\* ------------------------------------------------------------ sequences
Range(s) == {s[i] : i \in DOMAIN s}

RECURSIVE SelectIdx(_, _, _)
\* indices i >= from of s with P-set membership, in order
SelectIdx(s, from, keep) ==
  IF from > Len(s) THEN <<>>
  ELSE IF s[from] \in keep THEN <<from>> \o SelectIdx(s, from + 1, keep)
       ELSE SelectIdx(s, from + 1, keep)

\* ------------------------------------------------- buildExecutionPlan
NodeIdsOf(nodes) == {nodes[i].id : i \in DOMAIN nodes}

\* nodes.find(n => n.id === id): index of the first node with that id, 0 if none
FindNode(nodes, id) ==
  IF id \in NodeIdsOf(nodes)
  THEN CHOOSE i \in DOMAIN nodes :
         /\ nodes[i].id = id
         /\ \A j \in DOMAIN nodes : nodes[j].id = id => i <= j
  ELSE 0

\* edges.forEach(...) throws at the first edge whose source has no adjacency list
AdjacencyThrows(nodes, edges) ==
  \E k \in DOMAIN edges : edges[k].from \notin NodeIdsOf(nodes)

RECURSIVE AdjacencyOf(_, _, _)
\* adjacency.get(id) after the first k edges: targets of id's edges, in edge order
AdjacencyOf(edges, id, k) ==
  IF k = 0 THEN <<>>
  ELSE IF edges[k].from = id
       THEN Append(AdjacencyOf(edges, id, k - 1), edges[k].to)
       ELSE AdjacencyOf(edges, id, k - 1)

RECURSIVE InDegreeOf(_, _, _, _)
\* inDegree.get(id) after the first k edges; a target that is no node id
\* starts from undefined, so its entry is NaN
InDegreeOf(nodes, edges, id, k) ==
  IF k = 0 THEN (IF id \in NodeIdsOf(nodes) THEN 0 ELSE NaN)
  ELSE LET prev == InDegreeOf(nodes, edges, id, k - 1) IN
       IF edges[k].to = id
       THEN (IF prev = NaN THEN NaN ELSE prev + 1)
       ELSE prev

InDegreeKeys(nodes, edges) ==
  NodeIdsOf(nodes) \cup {edges[k].to : k \in DOMAIN edges}

Decrement(v) == IF v = NaN THEN NaN ELSE v - 1

RECURSIVE RelaxNoZeroTest(_, _, _, _)
\* variant of Relax without the in-degree test: a neighbour is pushed every
\* time one of its incoming edges is relaxed
RelaxNoZeroTest(nodes, neighbors, inDegree, queue) ==
  IF neighbors = <<>> THEN [inDegree |-> inDegree, queue |-> queue]
  ELSE LET id   == Head(neighbors)
           deg  == [inDegree EXCEPT ![id] = Decrement(@)]
           at   == FindNode(nodes, id)
           q    == IF at # 0 THEN Append(queue, at) ELSE queue
       IN  RelaxNoZeroTest(nodes, Tail(neighbors), deg, q)

RECURSIVE Relax(_, _, _, _)
\* neighbors.forEach: decrement, push the neighbour's node when it reaches 0
Relax(nodes, neighbors, inDegree, queue) ==
  IF neighbors = <<>> THEN [inDegree |-> inDegree, queue |-> queue]
  ELSE LET id   == Head(neighbors)
           deg  == [inDegree EXCEPT ![id] = Decrement(@)]
           at   == FindNode(nodes, id)
           q    == IF deg[id] = 0 /\ at # 0 THEN Append(queue, at) ELSE queue
       IN  Relax(nodes, Tail(neighbors), deg, q)

RECURSIVE KahnLifo(_, _, _, _, _)
\* variant of the loop that takes the node pushed last (queue.pop())
KahnLifo(nodes, edges, inDegree, queue, plan) ==
  IF queue = <<>> THEN plan
  ELSE LET at == queue[Len(queue)]
           r  == Relax(nodes, AdjacencyOf(edges, nodes[at].id, Len(edges)),
                       inDegree, SubSeq(queue, 1, Len(queue) - 1))
       IN  KahnLifo(nodes, edges, r.inDegree, r.queue, Append(plan, at))

RECURSIVE Kahn(_, _, _, _, _)
\* while (queue.length > 0): shift, push to the plan, relax the neighbours;
\* queue and plan hold positions in graph.nodes
Kahn(nodes, edges, inDegree, queue, plan) ==
  IF queue = <<>> THEN plan
  ELSE LET at == Head(queue)
           r  == Relax(nodes, AdjacencyOf(edges, nodes[at].id, Len(edges)),
                       inDegree, Tail(queue))
       IN  Kahn(nodes, edges, r.inDegree, r.queue, Append(plan, at))

\* result of buildExecutionPlan: the plan (positions in graph.nodes) or the
\* message of the error it throws
buildExecutionPlan(graph) ==
  LET nodes == graph.nodes
      edges == graph.edges
  IN IF AdjacencyThrows(nodes, edges)
     THEN [ok |-> FALSE, plan |-> <<>>, error |-> TypeErrorMessage]
     ELSE LET inDegree == [id \in InDegreeKeys(nodes, edges) |->
                             InDegreeOf(nodes, edges, id, Len(edges))]
              zero     == {n \in Range(nodes) : inDegree[n.id] = 0}
              queue    == SelectIdx(nodes, 1, zero)
              plan     == Kahn(nodes, edges, inDegree, queue, <<>>)
          IN IF Len(plan) # Len(nodes)
             THEN [ok |-> FALSE, plan |-> <<>>, error |-> CycleMessage]
             ELSE [ok |-> TRUE, plan |-> plan, error |-> NoText]

\* ------------------------------------------------------ graph predicates
EndpointsValid(graph) ==
  \A k \in DOMAIN graph.edges :
     /\ graph.edges[k].from \in NodeIdsOf(graph.nodes)
     /\ graph.edges[k].to \in NodeIdsOf(graph.nodes)

EdgePairs(graph) ==
  {<<graph.edges[k].from, graph.edges[k].to>> : k \in DOMAIN graph.edges}

RECURSIVE ReachIn(_, _, _)
\* ids reachable from the set cur in at most n further edge steps
ReachIn(pairs, cur, n) ==
  IF n = 0 THEN cur
  ELSE ReachIn(pairs, cur \cup {p[2] : p \in {q \in pairs : q[1] \in cur}}, n - 1)

\* a cycle: some edge a -> b with a reachable from b
HasCycle(graph) ==
  \E p \in EdgePairs(graph) :
     p[1] \in ReachIn(EdgePairs(graph), {p[2]}, Cardinality(EdgePairs(graph)))

\* ===================================================================
\* Plan specification: buildExecutionPlan applied to every small graph
\* ===================================================================
NodeTypes == {"start", "action", "end"}

\* node lists with unique ids 1..n, inserted in ascending or in descending
\* id order (the plan uses ids only through equality, so every list of
\* unique ids is one of these up to renaming)
NodeLists ==
  UNION {{[i \in 1..n |-> [id |-> i, type |-> "action"]],
          [i \in 1..n |-> [id |-> n + 1 - i, type |-> "action"]]}
         : n \in 0..MaxNodes}

\* endpoints of edges: the node ids of a list plus one id that is no node's
Endpoints(nodes) == NodeIdsOf(nodes) \cup {Ghost}

NoGraph == [wellFormed |-> FALSE, nodes |-> <<>>, edges |-> <<>>]
NoPlan  == [ok |-> FALSE, plan |-> <<>>, error |-> "not run"]

\* a POST /:id/versions handler that is not running; code is its last answer
IdleVersionReq == [pc |-> "idle", flowId |-> 0, nextVersion |-> 0, code |-> 0]

\* users as the migration creates them, with the gate switched off
DefaultUsers ==
  [u \in 1..MaxUsers |-> [rate_limit |-> MaxRateLimit, allow_ip_whitelist |-> FALSE]]

Anonymous == 0            \* req.user is not set

\* a request that has not reached rateLimitMiddleware yet
IdleRateReq ==
  [pc |-> "idle", user |-> Anonymous, rateLimit |-> 0, requestCount |-> 0,
   code |-> 0]

RateIdle ==
  /\ api_rate_tracking = <<>>
  /\ rateReq = [r \in 1..MaxRequests |-> IdleRateReq]

\* an address string: an optional "::ffff:" prefix and the rest of the text
Ip(prefix, rest) == [prefix |-> prefix, rest |-> rest]

Empty == Ip("", "")       \* a header that is absent or empty (falsy)

IdleIpReq ==
  [pc |-> "idle", user |-> Anonymous, xff |-> <<>>, realIp |-> Empty,
   ip |-> Empty, code |-> 0, currentIp |-> Empty]

IpIdle ==
  /\ ip_whitelist = {}
  /\ ipReq = IdleIpReq

IdleRouteReq ==
  [pc |-> "idle", method |-> "GET", path |-> <<>>, token |-> FALSE,
   ipOk |-> FALSE, quotaOk |-> FALSE, code |-> 0, router |-> "none",
   passed |-> {}]

RouteIdle == routeReq = IdleRouteReq

IdleConnReq == [pc |-> "idle", org |-> 0, label |-> "", existing |-> FALSE]

\* the providers autoVerifyIntegrations checks, by LOWER(name)
Providers == {"flutterwave", "mtn mobile money"}

\* autoVerifyIntegrations before its first check, in a process whose
\* environment holds the credentials creds[p] of each provider p
StartOfBoot(creds) ==
  [pc |-> "flutterwave", env |-> creds,
   probed |-> [p \in Providers |-> "none"]]

IdleBoot == StartOfBoot([p \in Providers |-> TRUE])

VerifyIdle ==
  /\ integrations = <<>>
  /\ verifier = <<>>
  /\ bus = <<>>
  /\ connReq = IdleConnReq
  /\ boot = IdleBoot

\* a URL text: null, text that new URL() refuses, or scheme://host/...
\* host is a name, or an IPv4 literal kept as its four numbers
Host(name, ip) == [name |-> name, ip |-> ip]
NoIp == <<0, 0, 0, 0>>
NoUrl      == [kind |-> "null", scheme |-> "", host |-> Host("", NoIp)]
GarbageUrl == [kind |-> "garbage", scheme |-> "", host |-> Host("", NoIp)]
Url(scheme, host) == [kind |-> "url", scheme |-> scheme, host |-> host]

StripeUrl  == Url("https", Host("api.stripe.com", NoIp))
ExampleUrl == Url("https", Host("api.example.com", NoIp))

IdleOutbound ==
  [pc |-> "idle", caller |-> "none", name |-> "", url |-> NoUrl,
   issued |-> FALSE, target |-> NoUrl]

OutboundIdle == outbound = IdleOutbound

NoOrg == 0                \* req.user?.org of a request without a principal

IdleApiRes == [op |-> "none", code |-> 0, executions |-> {}, flows |-> {}]
IdleDelReq == [pc |-> "idle", executionId |-> 0]

TenantIdle ==
  /\ reqUser = NoOrg
  /\ execution_logs = <<>>
  /\ apiRes = IdleApiRes
  /\ delReq = IdleDelReq

NoUser == 0               \* req.user?.id of a request without a principal

\* no pending_users row read yet
NoPending == [email |-> 0, password_hash |-> <<>>, verification_code |-> NoText]

IdleSignupReq == [pc |-> "idle", p |-> NoPending]

IdleReactReq == [pc |-> "idle", userId |-> NoUser]

AuthIdle ==
  /\ accounts = <<>>
  /\ pending_users = {}
  /\ signupReq = [r \in 1..MaxVerifyReqs |-> IdleSignupReq]
  /\ authRes = [route |-> "none", code |-> 0, error |-> NoText]
  /\ reactReq = IdleReactReq

Sockets == 1..MaxSockets

\* the server has just started: no row, no client, setupDbListener at
\* pool.connect()
SocketIdle ==
  /\ tx_events = <<>>
  /\ notifications = <<>>
  /\ channel = <<>>
  /\ listener = "connecting"
  /\ principal = [s \in Sockets |-> 1]
  /\ rooms = [s \in Sockets |-> {}]
  /\ inbox = [s \in Sockets |-> <<>>]

IdleStartReq ==
  [pc |-> "idle", flowId |-> 0, latest_version |-> 0, trigger_type |-> NoText]

EngineIdle ==
  /\ now = 0
  /\ flows = <<>>
  /\ flow_versions = <<>>
  /\ flow_executions = <<>>
  /\ execution_steps = <<>>
  /\ executor = <<>>
  /\ startReq = IdleStartReq
  /\ response = [kind |-> "none"]
  /\ versionReq = [r \in 1..MaxVersionReqs |-> IdleVersionReq]

PlanIdle ==
  /\ planGraph = NoGraph
  /\ planOut = NoPlan

PlanInit ==
  /\ EngineIdle
  /\ users = DefaultUsers
  /\ RateIdle /\ IpIdle /\ RouteIdle /\ VerifyIdle /\ TenantIdle /\ AuthIdle /\ SocketIdle /\ OutboundIdle
  /\ \E ns \in NodeLists : \E m \in 0..MaxEdges :
       \E es \in [1..m -> [from : Endpoints(ns), to : Endpoints(ns)]] :
          planGraph = [wellFormed |-> TRUE, nodes |-> ns, edges |-> es]
  /\ planOut = NoPlan

\* const executionPlan = this.buildExecutionPlan(graph)
BuildPlan ==
  /\ planOut = NoPlan
  /\ planOut' = buildExecutionPlan(planGraph)
  /\ UNCHANGED <<now, flows, flow_versions, flow_executions, execution_steps,
                 executor, startReq, response, planGraph,
                 versionReq, aside>>

PlanNext == BuildPlan

PlanSpec == PlanInit /\ [][PlanNext]_vars

\* position of node id in a plan (0 when absent)
PlanPos(graph, plan, id) ==
  IF \E i \in DOMAIN plan : graph.nodes[plan[i]].id = id
  THEN CHOOSE i \in DOMAIN plan : graph.nodes[plan[i]].id = id
  ELSE 0

PlanRan == planOut # NoPlan

\* C7: for an acyclic graph whose edge endpoints are all node ids, the plan
\* holds every node exactly once (its length is |nodes|) and puts the source
\* of every edge before its target.
C7_PlanIsTopologicalOrder ==
  (PlanRan /\ EndpointsValid(planGraph) /\ ~HasCycle(planGraph)) =>
     /\ planOut.ok
     /\ Len(planOut.plan) = Len(planGraph.nodes)
     /\ \A i \in DOMAIN planGraph.nodes :
           Cardinality({j \in DOMAIN planOut.plan : planOut.plan[j] = i}) = 1
     /\ \A k \in DOMAIN planGraph.edges :
           PlanPos(planGraph, planOut.plan, planGraph.edges[k].from)
             < PlanPos(planGraph, planOut.plan, planGraph.edges[k].to)

\* a diamond-free DAG with a join: 1 -> 3, 2 -> 3 and a chain 1 -> 2
C7_Witness ==
  /\ PlanRan
  /\ EndpointsValid(planGraph)
  /\ ~HasCycle(planGraph)
  /\ Len(planGraph.nodes) = MaxNodes
  /\ Len(planGraph.edges) = 3
  /\ Cardinality(EdgePairs(planGraph)) = 3
  /\ planOut.ok
  /\ planGraph.nodes[planOut.plan[1]].id # planGraph.nodes[1].id

\* ===================================================================
\* Engine specification: flows, versions, executions, the executor task
\* ===================================================================
Node(id, type) == [id |-> id, type |-> type]
Edge(from, to) == [from |-> from, to |-> to]

\* start -> http action -> end
ChainGraph ==
  [wellFormed |-> TRUE,
   nodes |-> <<Node(1, "start"), Node(2, "action"), Node(3, "end")>>,
   edges |-> <<Edge(1, 2), Edge(2, 3)>>]

\* edges include 1 -> 2 and 2 -> 1
CycleGraph ==
  [wellFormed |-> TRUE,
   nodes |-> <<Node(1, "start"), Node(2, "action"), Node(3, "end")>>,
   edges |-> <<Edge(1, 2), Edge(2, 1), Edge(2, 3)>>]

\* a cycle, and an edge whose source is no node of the graph
CycleDanglingGraph ==
  [wellFormed |-> TRUE,
   nodes |-> <<Node(1, "start"), Node(2, "action")>>,
   edges |-> <<Edge(1, 2), Edge(2, 1), Edge(Ghost, 2)>>]

\* two nodes without edges
PairGraph ==
  [wellFormed |-> TRUE,
   nodes |-> <<Node(2, "action"), Node(1, "end")>>,
   edges |-> <<>>]

\* a graph object without a nodes array
MalformedGraph == NoGraph

\* graphs a client sends to POST /:id/versions
SampleGraphs ==
  {ChainGraph, CycleGraph, CycleDanglingGraph, PairGraph, MalformedGraph}

Terminal == {"completed", "failed", "cancelled"}

ExecIds == 1..Len(flow_executions)

VersionsOf(f) == {i \in DOMAIN flow_versions : flow_versions[i].flow_id = f}

\* variant of the aggregate that takes the lowest version, MIN for MAX
OldestVersion(f) ==
  IF VersionsOf(f) = {} THEN 0
  ELSE CHOOSE v \in {flow_versions[i].version : i \in VersionsOf(f)} :
         \A i \in VersionsOf(f) : flow_versions[i].version >= v

\* COALESCE(MAX(v.version), 0)
LatestVersion(f) ==
  IF VersionsOf(f) = {} THEN 0
  ELSE CHOOSE v \in {flow_versions[i].version : i \in VersionsOf(f)} :
         \A i \in VersionsOf(f) : flow_versions[i].version <= v

\* SELECT graph FROM flow_versions WHERE flow_id = $1 AND version = $2
GraphRows(f, v) ==
  {i \in DOMAIN flow_versions :
     flow_versions[i].flow_id = f /\ flow_versions[i].version = v}

StepsOf(e) == {i \in DOMAIN execution_steps : execution_steps[i].execution_id = e}

Init ==
  /\ EngineIdle
  /\ PlanIdle
  /\ users = DefaultUsers
  /\ RateIdle /\ IpIdle /\ RouteIdle /\ VerifyIdle /\ TenantIdle /\ AuthIdle /\ SocketIdle /\ OutboundIdle

\* ------------------------------------------------------------ the store
Tick ==
  /\ now < MaxTime
  /\ now' = now + 1
  /\ UNCHANGED <<flows, flow_versions, flow_executions, execution_steps,
                 executor, startReq, response, planGraph, planOut,
                 versionReq, aside>>

\* ------------------------------------------------------------ flows
\* POST /api/flows: the row takes org_id from req.user.org; status and
\* is_deleted take the column defaults
CreateFlow(org) ==
  /\ Len(flows) < MaxFlows
  /\ flows' = Append(flows,
        [org_id |-> org, status |-> "draft", is_deleted |-> FALSE])
  /\ UNCHANGED <<now, flow_versions, flow_executions, execution_steps,
                 executor, startReq, response, planGraph, planOut,
                 versionReq, aside>>

\* POST /api/flows/:id/versions, one step per store call.
\* SELECT id, name FROM flows WHERE id = $1 AND is_deleted = FALSE
\* (a missing flow is answered 404 and changes nothing)
VersionCheckFlow(r, f) ==
  /\ versionReq[r].pc = "idle"
  /\ f \in DOMAIN flows
  /\ ~flows[f].is_deleted
  /\ Cardinality(VersionsOf(f)) < MaxVersions
  /\ versionReq' = [versionReq EXCEPT ![r] =
        [pc |-> "max", flowId |-> f, nextVersion |-> 0, code |-> 0]]
  /\ UNCHANGED <<now, flows, flow_versions, flow_executions, execution_steps,
                 executor, startReq, response, planGraph, planOut, aside>>

\* SELECT COALESCE(MAX(version), 0) AS maxv ...; nextVersion = maxv + 1
VersionReadMax(r) ==
  /\ versionReq[r].pc = "max"
  /\ versionReq' = [versionReq EXCEPT
        ![r].pc = "insert",
        ![r].nextVersion = LatestVersion(versionReq[r].flowId) + 1]
  /\ UNCHANGED <<now, flows, flow_versions, flow_executions, execution_steps,
                 executor, startReq, response, planGraph, planOut, aside>>

\* variant of the insert on a table without UNIQUE(flow_id, version)
VersionInsertNoUnique(r, graph) ==
  /\ versionReq[r].pc = "insert"
  /\ flow_versions' = Append(flow_versions,
        [flow_id |-> versionReq[r].flowId,
         version |-> versionReq[r].nextVersion, graph |-> graph])
  /\ versionReq' = [versionReq EXCEPT ![r] = [IdleVersionReq EXCEPT !.code = 201]]
  /\ UNCHANGED <<now, flows, flow_executions, execution_steps,
                 executor, startReq, response, planGraph, planOut, aside>>

\* INSERT INTO flow_versions (flow_id, version, graph, variables): the row is
\* refused by UNIQUE(flow_id, version) when the pair exists, and the catch
\* answers 500; otherwise 201
VersionInsert(r, graph) ==
  /\ versionReq[r].pc = "insert"
  /\ IF GraphRows(versionReq[r].flowId, versionReq[r].nextVersion) # {}
     THEN /\ UNCHANGED flow_versions
          /\ versionReq' = [versionReq EXCEPT
                ![r] = [IdleVersionReq EXCEPT !.code = 500]]
     ELSE /\ flow_versions' = Append(flow_versions,
                [flow_id |-> versionReq[r].flowId,
                 version |-> versionReq[r].nextVersion, graph |-> graph])
          /\ versionReq' = [versionReq EXCEPT
                ![r] = [IdleVersionReq EXCEPT !.code = 201]]
  /\ UNCHANGED <<now, flows, flow_executions, execution_steps,
                 executor, startReq, response, planGraph, planOut, aside>>

\* DELETE /api/flows/:id
SoftDeleteFlow(f) ==
  /\ f \in DOMAIN flows
  /\ flows' = [flows EXCEPT ![f].is_deleted = TRUE]
  /\ UNCHANGED <<now, flow_versions, flow_executions, execution_steps,
                 executor, startReq, response, planGraph, planOut,
                 versionReq, aside>>

\* ------------------------------------------------------------ start
\* variant of the flow lookup that also returns soft-deleted flows
FlowLookupAnyFlow(f) ==
  IF f \in DOMAIN flows
  THEN {[id |-> f, latest_version |-> LatestVersion(f)]}
  ELSE {}

\* SELECT f.*, COALESCE(MAX(v.version), 0) ... WHERE f.id = $1 AND f.is_deleted = FALSE
FlowLookup(f) ==
  IF f \in DOMAIN flows /\ ~flows[f].is_deleted
  THEN {[id |-> f, latest_version |-> LatestVersion(f)]}
  ELSE {}

ErrorResponse(f, msg) ==
  [kind |-> "error", flowId |-> f, code |-> 500, error |-> msg]

\* startExecution up to its first store call's answer; the route turns a
\* thrown error into a 500 response carrying the message
StartRead(f) ==
  /\ startReq.pc = "idle"
  /\ Len(flow_executions) < MaxExec
  /\ IF FlowLookup(f) = {}
     THEN /\ response' = ErrorResponse(f, "Flow not found")
          /\ UNCHANGED startReq
     ELSE LET flow == CHOOSE r \in FlowLookup(f) : TRUE IN
          IF flow.latest_version = 0
          THEN /\ response' = ErrorResponse(f, "Flow has no versions to execute")
               /\ UNCHANGED startReq
          ELSE /\ startReq' = [pc |-> "insert", flowId |-> f,
                               latest_version |-> flow.latest_version,
                               trigger_type |-> "manual"]
               /\ UNCHANGED response
  /\ UNCHANGED <<now, flows, flow_versions, flow_executions, execution_steps,
                 executor, planGraph, planOut,
                 versionReq, aside>>

\* ------------------------------------------------------------ node data
\* A JSON value that a node hands on or a column holds, by what the engine
\* tells apart in it: status is the HTTP status of a response, 0 elsewhere.
NoData     == [kind |-> "NULL", status |-> 0]     \* SQL NULL of a JSON column
JsonNull   == [kind |-> "null", status |-> 0]     \* triggerData: null
JsonObject == [kind |-> "object", status |-> 0]   \* triggerData: { ... }
EndOutput  == [kind |-> "end", status |-> 0]      \* { completed: true, inputs, timestamp }

\* triggerData of a request body: the default {} replaces undefined only
TriggerDatas == {JsonObject, JsonNull}

\* HTTP statuses of the responses an http action receives
HttpStatuses == {200, 500}

\* variant of executeHttpAction that returns { status, headers, data } for
\* every response
HttpOutputDataOnly(status) == [kind |-> "data", status |-> status]

\* executeHttpAction: axios resolves for a 2xx status and the action
\* returns { status, headers, data }; for another status axios rejects with
\* error.response set and the action returns { status, error, headers }
HttpOutput(status) ==
  IF status \in 200..299
  THEN [kind |-> "data", status |-> status]
  ELSE [kind |-> "error", status |-> status]

\* if (predecessorOutput): undefined (no entry) and null are falsy
Truthy(v) == v.kind \notin {"NULL", "null"}

\* SQL NULL of the input_data column
NoInput == [p \in {Ghost} |-> NoData]

\* this.nodeOutputs.get(id)
OutputOf(ex, id) ==
  IF id \in DOMAIN ex.nodeOutputs THEN ex.nodeOutputs[id] ELSE NoData

\* graph.edges.filter(e => e.to === node.id)
InputEdges(graph, node) ==
  {i \in DOMAIN graph.edges : graph.edges[i].to = node.id}

\* inputEdges.forEach(edge => { const predecessorOutput =
\*   this.nodeOutputs.get(edge.from);
\*   if (predecessorOutput) inputData[edge.from] = predecessorOutput })
InputData(ex, node) ==
  [p \in {q \in {ex.graph.edges[i].from : i \in InputEdges(ex.graph, node)} :
            Truthy(OutputOf(ex, q))} |->
     OutputOf(ex, p)]

\* the output of a node by its type: start passes the trigger data on, end
\* collects its inputs, an action is the http action
NodeOutput(ex, node, status) ==
  CASE node.type = "start" -> ex.triggerData
    [] node.type = "end"   -> EndOutput
    [] OTHER               -> HttpOutput(status)

\* this.nodeOutputs.set(node.id, output)
StoreOutput(ex, id, output) ==
  [ex EXCEPT !.nodeOutputs =
     [p \in DOMAIN ex.nodeOutputs \cup {id} |->
        IF p = id THEN output ELSE ex.nodeOutputs[p]]]

NewExecutor ==
  [pc |-> "load", graph |-> NoGraph, plan |-> <<>>, idx |-> 0, stepId |-> 0,
   stepStart |-> 0, startTime |-> now, error |-> NoText,
   triggerData |-> JsonObject, nodeOutputs |-> <<>>]

\* INSERT INTO flow_executions ... 'running'; new FlowExecutor(...).execute()
\* is launched without being awaited; the handler answers status 'running'
StartInsert ==
  /\ startReq.pc = "insert"
  /\ flow_executions' = Append(flow_executions,
        [flow_id |-> startReq.flowId, flow_version |-> startReq.latest_version,
         trigger_type |-> startReq.trigger_type,
         status |-> "running", started_at |-> now, completed_at |-> NULL,
         error_message |-> NoText, execution_time_ms |-> NULL])
  /\ \E triggerData \in TriggerDatas :
       executor' = Append(executor,
                     [NewExecutor EXCEPT !.triggerData = triggerData])
  /\ response' = [kind |-> "started", flowId |-> startReq.flowId, code |-> 200,
                  executionId |-> Len(flow_executions) + 1,
                  version |-> startReq.latest_version, status |-> "running"]
  /\ startReq' = IdleStartReq
  /\ UNCHANGED <<now, flows, flow_versions, execution_steps, planGraph, planOut,
                 versionReq, aside>>

\* ------------------------------------------------------------ cancel
\* variant of the cancel update without the status = 'running' condition
CancelUpdateAnyStatus(row) ==
  [row EXCEPT !.status = "cancelled", !.completed_at = now]

\* UPDATE flow_executions SET status = 'cancelled', completed_at = now()
\* WHERE id = $1 AND status = 'running'
CancelUpdate(row) ==
  IF row.status = "running"
  THEN [row EXCEPT !.status = "cancelled", !.completed_at = now]
  ELSE row

\* cancelExecution; an id without a row updates nothing
CancelExecution(e) ==
  /\ e \in 1..MaxExec
  /\ IF e \in ExecIds
     THEN flow_executions' = [flow_executions EXCEPT ![e] = CancelUpdate(@)]
     ELSE UNCHANGED flow_executions
  /\ UNCHANGED <<now, flows, flow_versions, execution_steps, executor,
                 startReq, response, planGraph, planOut,
                 versionReq, aside>>

\* ------------------------------------------------------------ executor
\* execute(): load the graph and build the plan; what is thrown here is
\* caught by execute's catch block
LoadGraph(e) ==
  /\ e \in ExecIds
  /\ executor[e].pc = "load"
  /\ LET rows == GraphRows(flow_executions[e].flow_id, flow_executions[e].flow_version)
         graph == flow_versions[CHOOSE i \in rows : TRUE].graph
         built == buildExecutionPlan(graph)
     IN executor' = [executor EXCEPT ![e] =
          IF rows = {}
          THEN [@ EXCEPT !.pc = "fail", !.error = VersionMessage]
          ELSE IF ~graph.wellFormed
          THEN [@ EXCEPT !.pc = "fail", !.error = StructureMessage]
          ELSE IF ~built.ok
          THEN [@ EXCEPT !.pc = "fail", !.graph = graph, !.error = built.error]
          ELSE [@ EXCEPT !.pc = IF built.plan = <<>> THEN "finalize" ELSE "insert_step",
                         !.graph = graph, !.plan = built.plan, !.idx = 1]]
  /\ UNCHANGED <<now, flows, flow_versions, flow_executions, execution_steps,
                 startReq, response, planGraph, planOut,
                 versionReq, aside>>

CurrentNode(e) == executor[e].graph.nodes[executor[e].plan[executor[e].idx]]

\* executeNode: INSERT INTO execution_steps ... 'running' RETURNING id
InsertStep(e) ==
  /\ e \in ExecIds
  /\ executor[e].pc = "insert_step"
  /\ execution_steps' = Append(execution_steps,
        [execution_id |-> e, node_id |-> CurrentNode(e).id,
         node_type |-> CurrentNode(e).type, status |-> "running",
         completed_at |-> NULL, error_message |-> NoText,
         execution_time_ms |-> NULL, input_data |-> NoInput,
         output_data |-> NoData])
  /\ executor' = [executor EXCEPT ![e] =
        [@ EXCEPT !.pc = "run_node", !.stepId = Len(execution_steps) + 1,
                  !.stepStart = now]]
  /\ UNCHANGED <<now, flows, flow_versions, flow_executions, startReq,
                 response, planGraph, planOut,
                 versionReq, aside>>

\* variant of the loop: the node after the completed one is skipped
AfterNodeSkipping(ex) ==
  IF ex.idx + 1 >= Len(ex.plan)
  THEN [ex EXCEPT !.pc = "finalize", !.idx = @ + 2]
  ELSE [ex EXCEPT !.pc = "insert_step", !.idx = @ + 2]

\* for (const node of executionPlan): next node, or leave the loop
AfterNode(ex) ==
  IF ex.idx = Len(ex.plan)
  THEN [ex EXCEPT !.pc = "finalize", !.idx = @ + 1]
  ELSE [ex EXCEPT !.pc = "insert_step", !.idx = @ + 1]

\* the node returned an output (an http action: a response of some status
\* arrived): this.nodeOutputs.set(node.id, output) and
\* UPDATE execution_steps SET status = 'completed', input_data, output_data ...
CompleteStep(e) ==
  /\ e \in ExecIds
  /\ executor[e].pc = "run_node"
  /\ \E status \in HttpStatuses :
       /\ CurrentNode(e).type = "action" \/ status = 200
       /\ LET output == NodeOutput(executor[e], CurrentNode(e), status) IN
            /\ execution_steps' = [execution_steps EXCEPT ![executor[e].stepId] =
                  [@ EXCEPT !.status = "completed", !.completed_at = now,
                            !.execution_time_ms = now - executor[e].stepStart,
                            !.input_data = InputData(executor[e], CurrentNode(e)),
                            !.output_data = output]]
            /\ executor' = [executor EXCEPT ![e] =
                  AfterNode(StoreOutput(@, CurrentNode(e).id, output))]
  /\ UNCHANGED <<now, flows, flow_versions, flow_executions, startReq,
                 response, planGraph, planOut,
                 versionReq, aside>>

\* only the HTTP action lets an error escape (no response: network error, timeout)
CanThrow(node) == node.type = "action"

\* variant of executeNode's catch block that swallows the error
AfterThrowContinue(ex, msg) == AfterNode(ex)

\* executeNode's catch block ends with `throw error`: execute's catch runs next
AfterThrow(ex, msg) == [ex EXCEPT !.pc = "fail", !.error = msg]

\* the node threw: UPDATE execution_steps SET status = 'failed', error_message ...
FailStep(e, msg) ==
  /\ e \in ExecIds
  /\ executor[e].pc = "run_node"
  /\ CanThrow(CurrentNode(e))
  /\ execution_steps' = [execution_steps EXCEPT ![executor[e].stepId] =
        [@ EXCEPT !.status = "failed", !.completed_at = now,
                  !.error_message = msg,
                  !.execution_time_ms = now - executor[e].stepStart]]
  /\ executor' = [executor EXCEPT ![e] = AfterThrow(@, msg)]
  /\ UNCHANGED <<now, flows, flow_versions, flow_executions, startReq,
                 response, planGraph, planOut,
                 versionReq, aside>>

\* variant of the final update that keeps a completed_at already set
CompletedUpdateKeepTime(row, startTime) ==
  [row EXCEPT !.status = "completed",
              !.completed_at = IF @ = NULL THEN now ELSE @,
              !.execution_time_ms = now - startTime]

\* UPDATE flow_executions SET status = 'completed', completed_at = now(),
\* execution_time_ms = $1 WHERE id = $2
CompletedUpdate(row, startTime) ==
  [row EXCEPT !.status = "completed", !.completed_at = now,
              !.execution_time_ms = now - startTime]

\* execute(): all nodes ran
MarkCompleted(e) ==
  /\ e \in ExecIds
  /\ executor[e].pc = "finalize"
  /\ flow_executions' = [flow_executions EXCEPT ![e] =
        CompletedUpdate(@, executor[e].startTime)]
  /\ executor' = [executor EXCEPT ![e].pc = "done"]
  /\ UNCHANGED <<now, flows, flow_versions, execution_steps, startReq,
                 response, planGraph, planOut,
                 versionReq, aside>>

\* variant of the failure update that leaves completed_at alone
FailedUpdateNoTime(row, msg, startTime) ==
  [row EXCEPT !.status = "failed", !.error_message = msg,
              !.execution_time_ms = now - startTime]

\* UPDATE flow_executions SET status = 'failed', completed_at = now(),
\* error_message = $1, execution_time_ms = $2 WHERE id = $3
FailedUpdate(row, msg, startTime) ==
  [row EXCEPT !.status = "failed", !.completed_at = now,
              !.error_message = msg, !.execution_time_ms = now - startTime]

\* execute()'s catch block
MarkFailed(e) ==
  /\ e \in ExecIds
  /\ executor[e].pc = "fail"
  /\ flow_executions' = [flow_executions EXCEPT ![e] =
        FailedUpdate(@, executor[e].error, executor[e].startTime)]
  /\ executor' = [executor EXCEPT ![e].pc = "done"]
  /\ UNCHANGED <<now, flows, flow_versions, execution_steps, startReq,
                 response, planGraph, planOut,
                 versionReq, aside>>

Next ==
  \/ Tick
  \/ \E org \in 1..MaxOrgs : CreateFlow(org)
  \/ \E f \in 1..MaxFlows : VersionCheckFlow(1, f)
  \/ VersionReadMax(1)
  \/ \E g \in SampleGraphs : VersionInsert(1, g)
  \/ \E f \in 1..MaxFlows : SoftDeleteFlow(f)
  \/ \E f \in 1..MaxFlows : StartRead(f)
  \/ StartInsert
  \/ \E e \in 1..MaxExec : CancelExecution(e)
  \/ \E e \in 1..MaxExec : LoadGraph(e)
  \/ \E e \in 1..MaxExec : InsertStep(e)
  \/ \E e \in 1..MaxExec : CompleteStep(e)
  \/ \E e \in 1..MaxExec : \E msg \in HttpErrors : FailStep(e, msg)
  \/ \E e \in 1..MaxExec : MarkCompleted(e)
  \/ \E e \in 1..MaxExec : MarkFailed(e)

Spec == Init /\ [][Next]_vars

\* the process ends (SIGTERM, SIGINT, a crash): index.js registers no
\* signal handler and no exit hook, so every FlowExecutor task and every
\* handler between two store calls ends where it stands and nothing is
\* written.  An exit with no task in flight changes nothing here.
ProcessExit ==
  /\ \E e \in DOMAIN executor : executor[e].pc # "done"
  /\ executor' = [e \in DOMAIN executor |->
                    IF executor[e].pc = "done" THEN executor[e]
                    ELSE [executor[e] EXCEPT !.pc = "killed"]]
  /\ startReq' = IdleStartReq
  /\ versionReq' = [r \in 1..MaxVersionReqs |-> IdleVersionReq]
  /\ UNCHANGED <<now, flows, flow_versions, flow_executions, execution_steps,
                 response, planGraph, planOut, aside>>

\* the engine, in a process that can end at any moment and be started again
ShutdownNext ==
  \/ Next
  \/ ProcessExit

ShutdownSpec == Init /\ [][ShutdownNext]_vars

\* ===================================================================
\* Rate gate: rateLimitMiddleware over users and api_rate_tracking
\* ===================================================================
\* rows of user u with timestamp > t
SamplesSince(u, t) ==
  {i \in DOMAIN api_rate_tracking :
     /\ api_rate_tracking[i].user_id = u
     /\ api_rate_tracking[i].timestamp > t}

\* variant of the limit test with > for >=
LimitExceededStrict(requestCount, rateLimit) == requestCount > rateLimit

\* if (requestCount >= rateLimit)
LimitExceeded(requestCount, rateLimit) == requestCount >= rateLimit

\* if (!req.user || !req.user.id) return next()
RateSkipAnonymous(r) ==
  /\ rateReq[r].pc = "idle"
  /\ rateReq' = [rateReq EXCEPT ![r] = [IdleRateReq EXCEPT !.pc = "done",
                                                            !.code = 200]]
  /\ UNCHANGED <<now, engine, users, api_rate_tracking, ipVars, routeVars,
                 verifyVars, outboundVars,
                 tenantVars, authVars, socketVars>>

\* SELECT rate_limit FROM users WHERE id=$1
RateReadLimit(r, u) ==
  /\ rateReq[r].pc = "idle"
  /\ rateReq' = [rateReq EXCEPT ![r] = [IdleRateReq EXCEPT
        !.pc = "count", !.user = u, !.rateLimit = users[u].rate_limit]]
  /\ UNCHANGED <<now, engine, users, api_rate_tracking, ipVars, routeVars,
                 verifyVars, outboundVars,
                 tenantVars, authVars, socketVars>>

\* SELECT COUNT(*) ... WHERE user_id=$1 AND timestamp > oneHourAgo, then the
\* limit test: 429 at once, or on to the insert
RateCount(r) ==
  /\ rateReq[r].pc = "count"
  /\ LET requestCount == Cardinality(SamplesSince(rateReq[r].user, now - Hour)) IN
       IF LimitExceeded(requestCount, rateReq[r].rateLimit)
       THEN rateReq' = [rateReq EXCEPT ![r].pc = "done", ![r].code = 429,
                                       ![r].requestCount = requestCount]
       ELSE rateReq' = [rateReq EXCEPT ![r].pc = "insert",
                                       ![r].requestCount = requestCount]
  /\ UNCHANGED <<now, engine, users, api_rate_tracking, ipVars, routeVars,
                 verifyVars, outboundVars,
                 tenantVars, authVars, socketVars>>

\* INSERT INTO api_rate_tracking (user_id, endpoint, ip_address), timestamp
\* DEFAULT NOW(); then next()
RateInsert(r) ==
  /\ rateReq[r].pc = "insert"
  /\ api_rate_tracking' = Append(api_rate_tracking,
        [user_id |-> rateReq[r].user, timestamp |-> now])
  /\ rateReq' = [rateReq EXCEPT ![r].pc = "done", ![r].code = 200]
  /\ UNCHANGED <<now, engine, users, ipVars, routeVars, verifyVars,
                 outboundVars,
                 tenantVars, authVars, socketVars>>

RateInit ==
  /\ EngineIdle
  /\ PlanIdle
  /\ \E limits \in [1..MaxUsers -> 1..MaxRateLimit] :
        users = [u \in 1..MaxUsers |->
                   [rate_limit |-> limits[u], allow_ip_whitelist |-> FALSE]]
  /\ RateIdle /\ IpIdle /\ RouteIdle /\ VerifyIdle /\ TenantIdle /\ AuthIdle /\ SocketIdle /\ OutboundIdle

RateNext ==
  \/ Tick
  \/ \E r \in 1..MaxRequests : RateSkipAnonymous(r)
  \/ \E r \in 1..MaxRequests : \E u \in 1..MaxUsers : RateReadLimit(r, u)
  \/ \E r \in 1..MaxRequests : RateCount(r)
  \/ \E r \in 1..MaxRequests : RateInsert(r)

RateSpec == RateInit /\ [][RateNext]_vars

\* ===================================================================
\* IP gate: ipWhitelistMiddleware over users and ip_whitelist
\* ===================================================================
\* req.headers['x-forwarded-for']?.split(',')[0].trim() ||
\* req.headers['x-real-ip'] || req.ip
ClientIpOf(req) ==
  IF req.xff # <<>> /\ req.xff[1] # Empty THEN req.xff[1]
  ELSE IF req.realIp # Empty THEN req.realIp
  ELSE req.ip

\* clientIp === '::1' || clientIp === '::ffff:127.0.0.1' ? '127.0.0.1'
\*   : clientIp.replace(/^::ffff:/, '')
NormalizeIp(clientIp) ==
  IF clientIp = Ip("", "::1") \/ clientIp = Ip("::ffff:", "127.0.0.1")
  THEN Ip("", "127.0.0.1")
  ELSE Ip("", clientIp.rest)

\* variant of the lookup without the user_id condition
WhitelistRowsAnyUser(u, ip) == {row \in ip_whitelist : row.ip_address = ip}

\* SELECT id FROM ip_whitelist WHERE user_id=$1 AND ip_address=$2
WhitelistRows(u, ip) ==
  {row \in ip_whitelist : row.user_id = u /\ row.ip_address = ip}

\* the middleware from arrival to next() (code 200) or the 403 answer
IpCheck ==
  /\ ipReq.pc = "arrived"
  /\ IF ipReq.user = Anonymous
     THEN ipReq' = [ipReq EXCEPT !.pc = "done", !.code = 200]
     ELSE IF ~users[ipReq.user].allow_ip_whitelist
     THEN ipReq' = [ipReq EXCEPT !.pc = "done", !.code = 200]
     ELSE LET normalizedIp == NormalizeIp(ClientIpOf(ipReq)) IN
          IF WhitelistRows(ipReq.user, normalizedIp) = {}
          THEN ipReq' = [ipReq EXCEPT !.pc = "done", !.code = 403,
                                      !.currentIp = normalizedIp]
          ELSE ipReq' = [ipReq EXCEPT !.pc = "done", !.code = 200]
  /\ UNCHANGED <<now, engine, users, rateVars, ip_whitelist, routeVars,
                 verifyVars, outboundVars,
                 tenantVars, authVars, socketVars>>

\* addresses a client, a proxy or the socket reports
ClientAddrs ==
  {Ip("", "10.0.0.5"), Ip("::ffff:", "10.0.0.5"), Ip("", "198.51.100.7"),
   Ip("", "::1"), Ip("::ffff:", "127.0.0.1")}

\* POST /api/ip-whitelist stores dotted-quad text only
EntryAddrs == {Ip("", "10.0.0.5"), Ip("", "127.0.0.1")}

RECURSIVE HopLists(_)
HopLists(n) ==
  IF n = 0 THEN {<<>>}
  ELSE HopLists(n - 1) \cup
       {Append(h, x) : h \in {l \in HopLists(n - 1) : Len(l) = n - 1},
                       x \in ClientAddrs \cup {Empty}}

IpInit ==
  /\ EngineIdle
  /\ PlanIdle
  /\ RateIdle /\ RouteIdle /\ VerifyIdle /\ TenantIdle /\ AuthIdle /\ SocketIdle /\ OutboundIdle
  /\ \E flags \in [1..MaxUsers -> BOOLEAN] :
        users = [u \in 1..MaxUsers |->
                   [rate_limit |-> MaxRateLimit, allow_ip_whitelist |-> flags[u]]]
  /\ \E rows \in SUBSET [user_id : 1..MaxUsers, ip_address : EntryAddrs] :
        ip_whitelist = rows
  /\ \E u \in {Anonymous} \cup 1..MaxUsers : \E xff \in HopLists(MaxHops) :
        \E realIp \in {Empty, Ip("", "10.0.0.5"), Ip("", "198.51.100.7")} :
          \E ip \in ClientAddrs :
            ipReq = [IdleIpReq EXCEPT !.pc = "arrived", !.user = u, !.xff = xff,
                                      !.realIp = realIp, !.ip = ip]

IpNext == IpCheck

IpSpec == IpInit /\ [][IpNext]_vars

\* ===================================================================
\* Route mounting: the middleware each request passes before a handler
\* ===================================================================
Route(method, path, router) == [method |-> method, path |-> path, router |-> router]

\* the routes of routes/flutterwave.js, written with their full paths
flutterwaveRoutes ==
  {Route("GET",  <<"api", "connectors">>, "flutterwave"),
   Route("POST", <<"api", "connectors", "flutterwave">>, "flutterwave"),
   Route("POST", <<"api", "connectors", "flutterwave", "test">>, "flutterwave"),
   Route("POST", <<"api", "flutterwave", "payments">>, "flutterwave"),
   Route("GET",  <<"api", "flutterwave", "verify">>, "flutterwave"),
   Route("POST", <<"webhooks", "flutterwave">>, "webhook")}

\* the routes of routes/connectors.js
connectorsRouter ==
  {Route("GET", <<>>, "connectors"), Route("POST", <<>>, "connectors")}

\* a router or handler that answers every request below its mount path
Every(router) == {Route("ANY", <<"*">>, router)}

Layer(mount, gates, routes) == [mount |-> mount, gates |-> gates, routes |-> routes]

AllGates == <<"requireAuth", "ipWhitelistMiddleware", "rateLimitMiddleware">>

\* app.use(...) calls in the order they run
Layers ==
  <<Layer(<<"api">>, <<>>, flutterwaveRoutes),
    Layer(<<>>, <<>>, flutterwaveRoutes),
    Layer(<<"api", "auth">>, <<>>, Every("auth")),
    Layer(<<"api", "ip-whitelist">>, <<"requireAuth">>, Every("ipWhitelist")),
    Layer(<<"api", "flows">>, AllGates, Every("flows")),
    Layer(<<"api", "roles">>, AllGates, Every("roles")),
    Layer(<<"api", "dashboard">>, AllGates, Every("dashboard")),
    Layer(<<"api", "connections">>, AllGates, Every("connections")),
    Layer(<<"api", "mtn">>, AllGates, Every("mtn")),
    Layer(<<"api", "executions">>, AllGates, Every("executions")),
    Layer(<<"api", "templates">>, <<>>, Every("templates")),
    Layer(<<"api">>, <<>>, Every("notFound")),
    Layer(<<>>, <<>>, Every("notFound")),
    Layer(<<"api", "connectors">>, <<>>, connectorsRouter)>>

\* the mount path is a prefix of the request path
Mounted(mount, path) ==
  /\ Len(mount) <= Len(path)
  /\ \A i \in DOMAIN mount : mount[i] = path[i]

\* the routes of a layer that answer the request below its mount path
Answering(layer, req) ==
  {rt \in layer.routes :
     \/ rt.method = "ANY"
     \/ /\ rt.method = req.method
        /\ rt.path = SubSeq(req.path, Len(layer.mount) + 1, Len(req.path))}

\* does the middleware call next() for this request
Passes(gate, req) ==
  CASE gate = "requireAuth"           -> req.token
    [] gate = "ipWhitelistMiddleware" -> req.ipOk
    [] gate = "rateLimitMiddleware"   -> req.quotaOk

Refusal(gate) ==
  CASE gate = "requireAuth"           -> 401
    [] gate = "ipWhitelistMiddleware" -> 403
    [] gate = "rateLimitMiddleware"   -> 429

\* index of the first middleware of the list that ends the response, 0 if none
FirstRefusing(gates, req) ==
  IF \E k \in DOMAIN gates : ~Passes(gates[k], req)
  THEN CHOOSE k \in DOMAIN gates :
         /\ ~Passes(gates[k], req)
         /\ \A j \in 1..(k - 1) : Passes(gates[j], req)
  ELSE 0

RECURSIVE Dispatch(_, _, _)
\* the request walks the layers from i on; passed holds the middleware
\* that has called next() for it so far
Dispatch(req, i, passed) ==
  IF i > Len(Layers)
  THEN [code |-> 404, router |-> "none", passed |-> passed]
  ELSE LET layer == Layers[i]
           k == FirstRefusing(layer.gates, req)
       IN
       IF ~Mounted(layer.mount, req.path) THEN Dispatch(req, i + 1, passed)
       ELSE IF k # 0
       THEN [code |-> Refusal(layer.gates[k]), router |-> "none",
             passed |-> passed \cup {layer.gates[j] : j \in 1..(k - 1)}]
       ELSE IF Answering(layer, req) # {}
       THEN [code |-> IF (CHOOSE rt \in Answering(layer, req) : TRUE).router
                           = "notFound" THEN 404 ELSE 200,
             router |-> (CHOOSE rt \in Answering(layer, req) : TRUE).router,
             passed |-> passed \cup Range(layer.gates)]
       ELSE Dispatch(req, i + 1, passed \cup Range(layer.gates))

\* one request through the application
HandleRequest ==
  /\ routeReq.pc = "arrived"
  /\ LET out == Dispatch(routeReq, 1, {}) IN
       routeReq' = [routeReq EXCEPT !.pc = "done", !.code = out.code,
                                    !.router = out.router, !.passed = out.passed]
  /\ UNCHANGED <<now, engine, users, rateVars, ipVars, verifyVars, outboundVars,
                 tenantVars, authVars, socketVars>>

SamplePaths ==
  {<<"api", "flows">>, <<"api", "executions", "start">>,
   <<"api", "dashboard", "integrations">>, <<"api", "connections">>,
   <<"api", "mtn">>, <<"api", "roles">>, <<"api", "ip-whitelist">>,
   <<"api", "connectors">>, <<"api", "connectors", "flutterwave">>,
   <<"api", "connectors", "flutterwave", "test">>,
   <<"api", "flutterwave", "payments">>, <<"api", "flutterwave", "verify">>,
   <<"api", "api", "connectors">>, <<"webhooks", "flutterwave">>,
   <<"api", "templates">>, <<"api", "auth", "login">>, <<"api", "unknown">>}

RouteInit ==
  /\ EngineIdle
  /\ PlanIdle
  /\ users = DefaultUsers
  /\ RateIdle /\ IpIdle /\ VerifyIdle /\ TenantIdle /\ AuthIdle /\ SocketIdle /\ OutboundIdle
  /\ \E method \in {"GET", "POST"} : \E path \in SamplePaths :
        \E token, ipOk, quotaOk \in BOOLEAN :
          routeReq = [IdleRouteReq EXCEPT !.pc = "arrived", !.method = method,
                        !.path = path, !.token = token, !.ipOk = ipOk,
                        !.quotaOk = quotaOk]

RouteNext == HandleRequest

RouteSpec == RouteInit /\ [][RouteNext]_vars

\* ===================================================================
\* Outbound requests: the HTTP action node and the verification probe
\* ===================================================================
\* the lower-cased integration name matches /stripe/
NamesStripe(name) == name \in {"Stripe", "stripe"}

\* let url = testUrl || null; if (!url && /stripe/.test(lower)) url = stripe
ProbeUrl(name, testUrl) ==
  IF testUrl # NoUrl THEN testUrl
  ELSE IF NamesStripe(name) THEN StripeUrl
  ELSE NoUrl

\* try { if (!url) throw ...; new URL(url) }: the text is a URL
ProbeUrlValid(url) == url.kind = "url"

\* the transport sends a request for http and https URLs only; any other
\* scheme makes fetch / axios throw before a connection is opened
Sendable(url) == url.kind = "url" /\ url.scheme \in {"http", "https"}

\* const url = config.url || 'https://api.example.com/endpoint'
HttpActionUrl(configUrl) == IF configUrl # NoUrl THEN configUrl ELSE ExampleUrl

\* verifyAfterDelay from the url choice to fetch(url)
IssueProbe ==
  /\ outbound.pc = "ready"
  /\ outbound.caller = "probe"
  /\ LET url == ProbeUrl(outbound.name, outbound.url) IN
       outbound' = [outbound EXCEPT
          !.pc = "done",
          !.issued = ProbeUrlValid(url) /\ Sendable(url),
          !.target = url]
  /\ UNCHANGED <<now, engine, users, rateVars, ipVars, routeVars, verifyVars,
                 tenantVars, authVars, socketVars>>

\* executeHttpAction up to axios({ method, url, ... })
IssueHttpAction ==
  /\ outbound.pc = "ready"
  /\ outbound.caller = "httpAction"
  /\ LET url == HttpActionUrl(outbound.url) IN
       outbound' = [outbound EXCEPT
          !.pc = "done", !.issued = Sendable(url), !.target = url]
  /\ UNCHANGED <<now, engine, users, rateVars, ipVars, routeVars, verifyVars,
                 tenantVars, authVars, socketVars>>

TargetHosts ==
  {Host("localhost", NoIp), Host("[::1]", NoIp), Host("api.stripe.com", NoIp),
   Host("", <<127, 0, 0, 1>>), Host("", <<127, 8, 9, 1>>),
   Host("", <<10, 1, 2, 3>>), Host("", <<172, 16, 0, 1>>),
   Host("", <<172, 31, 255, 1>>), Host("", <<172, 32, 0, 1>>),
   Host("", <<192, 168, 1, 1>>), Host("", <<169, 254, 169, 254>>),
   Host("", <<8, 8, 8, 8>>)}

TargetUrls ==
  {NoUrl, GarbageUrl}
    \cup {Url(scheme, host) : scheme \in {"http", "https", "ftp", "file"},
                              host \in TargetHosts}

OutboundInit ==
  /\ EngineIdle
  /\ PlanIdle
  /\ users = DefaultUsers
  /\ RateIdle /\ IpIdle /\ RouteIdle /\ VerifyIdle /\ TenantIdle /\ AuthIdle /\ SocketIdle
  /\ \E caller \in {"probe", "httpAction"} : \E url \in TargetUrls :
        \E name \in {"Stripe", "MTN Mobile Money"} :
          outbound = [IdleOutbound EXCEPT !.pc = "ready", !.caller = caller,
                                          !.name = name, !.url = url]

OutboundNext == IssueProbe \/ IssueHttpAction

OutboundSpec == OutboundInit /\ [][OutboundNext]_vars

\* ===================================================================
\* Integrations: dashboard routes, verifyAfterDelay, connection save and
\* the startup self-check, over the integrations table
\* ===================================================================
IntegrationNames == {"Stripe", "MTN Mobile Money", "Flutterwave"}

\* LOWER(name)
Lower(name) ==
  CASE name = "Stripe"           -> "stripe"
    [] name = "MTN Mobile Money" -> "mtn mobile money"
    [] name = "Flutterwave"      -> "flutterwave"
    [] OTHER                     -> name

\* test_url values a client sends
TestUrls == {NoUrl, GarbageUrl, ExampleUrl}

ProbeOutcomes == {"2xx", "non2xx", "timeout", "network"}

UpdateEvent(org) == [room |-> org, event |-> "integrations:update"]

\* variant of the WHERE clause that also matches rows already deleted
RowsByIdWithDeleted(id, org) ==
  {i \in DOMAIN integrations : i = id /\ integrations[i].org_id = org}

\* rows WHERE id=$1 AND org_id=$2
RowsById(id, org) ==
  {i \in DOMAIN integrations :
     i = id /\ integrations[i].org_id = org /\ ~integrations[i].deleted}

\* rows WHERE org_id = $1 AND LOWER(name) = LOWER($2)
RowsByName(org, name) ==
  {i \in DOMAIN integrations :
     /\ integrations[i].org_id = org
     /\ Lower(integrations[i].name) = Lower(name)
     /\ ~integrations[i].deleted}

\* rows WHERE LOWER(name) = $1, of every org
RowsByLowerName(lower) ==
  {i \in DOMAIN integrations :
     Lower(integrations[i].name) = lower /\ ~integrations[i].deleted}

\* variant of the UPDATE that also clears test_url
SetStatusResetUrl(rows, status) ==
  [i \in DOMAIN integrations |->
     IF i \in rows
     THEN [integrations[i] EXCEPT !.status = status, !.last_checked = now,
                                  !.test_url = NoUrl]
     ELSE integrations[i]]

\* variant of the UPDATE that leaves a row that is no longer pending alone
SetStatusFirstWins(rows, status) ==
  [i \in DOMAIN integrations |->
     IF i \in rows /\ (status = "pending" \/ integrations[i].status = "pending")
     THEN [integrations[i] EXCEPT !.status = status, !.last_checked = now]
     ELSE integrations[i]]

\* UPDATE integrations SET status = $s, last_checked = now() on the rows
SetStatus(rows, status) ==
  [i \in DOMAIN integrations |->
     IF i \in rows
     THEN [integrations[i] EXCEPT !.status = status, !.last_checked = now]
     ELSE integrations[i]]

NewVerifier(org, id, name, testUrl) ==
  [pc |-> "delay", orgId |-> org, integrationId |-> id, name |-> name,
   testUrl |-> testUrl, url |-> NoUrl, outcome |-> "none", wrote |-> "none"]

\* POST /integrations: INSERT ... 'pending', answer 201, start the verifier
CreateIntegration(org, name, testUrl) ==
  /\ Len(integrations) < MaxIntegrations
  /\ Len(verifier) < MaxVerifications
  /\ integrations' = Append(integrations,
        [org_id |-> org, name |-> name, status |-> "pending",
         test_url |-> testUrl, last_checked |-> now, deleted |-> FALSE])
  /\ verifier' = Append(verifier,
        NewVerifier(org, Len(integrations) + 1, name, testUrl))
  /\ UNCHANGED <<now, engine, users, rateVars, ipVars, routeVars, bus, connReq,
                 boot, outboundVars,
                 tenantVars, authVars, socketVars>>

\* POST /integrations/:id/verify: SELECT the row (404 when there is none),
\* UPDATE ... 'pending', emit, answer 202, start the verifier
ReverifyIntegration(org, id) ==
  /\ Len(verifier) < MaxVerifications
  /\ RowsById(id, org) # {}
  /\ integrations' = SetStatus(RowsById(id, org), "pending")
  /\ bus' = Append(bus, UpdateEvent(org))
  /\ verifier' = Append(verifier,
        NewVerifier(org, id, integrations[id].name, integrations[id].test_url))
  /\ UNCHANGED <<now, engine, users, rateVars, ipVars, routeVars, connReq,
                 boot, outboundVars,
                 tenantVars, authVars, socketVars>>

\* PATCH /integrations/:id with a testUrl: test_url and last_checked
PatchIntegration(org, id, testUrl) ==
  /\ Len(bus) < MaxEvents
  /\ RowsById(id, org) # {}
  /\ integrations' = [integrations EXCEPT ![id].test_url = testUrl,
                                           ![id].last_checked = now]
  /\ bus' = Append(bus, UpdateEvent(org))
  /\ UNCHANGED <<now, engine, users, rateVars, ipVars, routeVars, verifier,
                 connReq, boot, outboundVars,
                 tenantVars, authVars, socketVars>>

\* DELETE /integrations/:id
DeleteIntegration(org, id) ==
  /\ Len(bus) < MaxEvents
  /\ RowsById(id, org) # {}
  /\ integrations' = [integrations EXCEPT ![id].deleted = TRUE]
  /\ bus' = Append(bus, UpdateEvent(org))
  /\ UNCHANGED <<now, engine, users, rateVars, ipVars, routeVars, verifier,
                 connReq, boot, outboundVars,
                 tenantVars, authVars, socketVars>>

\* verifyAfterDelay when its timer fires: without a valid URL it writes
\* 'error'; otherwise it calls fetch(url)
VerifyWake(w) ==
  /\ w \in DOMAIN verifier
  /\ verifier[w].pc = "delay"
  /\ LET url == ProbeUrl(verifier[w].name, verifier[w].testUrl) IN
       IF ProbeUrlValid(url)
       THEN /\ verifier' = [verifier EXCEPT ![w].pc = "fetch", ![w].url = url]
            /\ UNCHANGED integrations
       ELSE /\ verifier' = [verifier EXCEPT ![w].pc = "notify",
                                            ![w].wrote = "error"]
            /\ integrations' = SetStatus(
                  RowsById(verifier[w].integrationId, verifier[w].orgId), "error")
  /\ UNCHANGED <<now, engine, users, rateVars, ipVars, routeVars, bus, connReq,
                 boot, outboundVars,
                 tenantVars, authVars, socketVars>>

\* r.ok ? 'active' : 'error'; a thrown fetch (abort after 6 s, network
\* failure) reaches the catch, which writes 'error'
StatusAfterProbe(outcome) == IF outcome = "2xx" THEN "active" ELSE "error"

\* variant of the probe step whose catch writes nothing and ends the task
VerifyProbeResultNoCatch(w, outcome) ==
  /\ w \in DOMAIN verifier
  /\ verifier[w].pc = "fetch"
  /\ Sendable(verifier[w].url) \/ outcome = "network"
  /\ IF outcome \in {"timeout", "network"}
     THEN /\ verifier' = [verifier EXCEPT ![w].pc = "done", ![w].outcome = outcome]
          /\ UNCHANGED integrations
     ELSE /\ verifier' = [verifier EXCEPT ![w].pc = "notify",
             ![w].outcome = outcome, ![w].wrote = StatusAfterProbe(outcome)]
          /\ integrations' = SetStatus(
                RowsById(verifier[w].integrationId, verifier[w].orgId),
                StatusAfterProbe(outcome))
  /\ UNCHANGED <<now, engine, users, rateVars, ipVars, routeVars, bus, connReq,
                 boot, outboundVars,
                 tenantVars, authVars, socketVars>>

\* the fetch settles (a URL the transport cannot send throws at once) and
\* the status is written
VerifyProbeResult(w, outcome) ==
  /\ w \in DOMAIN verifier
  /\ verifier[w].pc = "fetch"
  /\ Sendable(verifier[w].url) \/ outcome = "network"
  /\ verifier' = [verifier EXCEPT ![w].pc = "notify", ![w].outcome = outcome,
                                  ![w].wrote = StatusAfterProbe(outcome)]
  /\ integrations' = SetStatus(
        RowsById(verifier[w].integrationId, verifier[w].orgId),
        StatusAfterProbe(outcome))
  /\ UNCHANGED <<now, engine, users, rateVars, ipVars, routeVars, bus, connReq,
                 boot, outboundVars,
                 tenantVars, authVars, socketVars>>

\* createNotification, then emitToOrg(req, "integrations:update")
VerifyNotify(w) ==
  /\ w \in DOMAIN verifier
  /\ verifier[w].pc = "notify"
  /\ verifier' = [verifier EXCEPT ![w].pc = "done"]
  /\ bus' = Append(bus, UpdateEvent(verifier[w].orgId))
  /\ UNCHANGED <<now, engine, users, rateVars, ipVars, routeVars, integrations,
                 connReq, boot, outboundVars,
                 tenantVars, authVars, socketVars>>

\* POST /api/connections: getAccessToken with the submitted credentials;
\* on failure UPDATE ... 'error' by name and answer 400, on success SELECT
\* the org's integration of that name
SaveConnectionTest(org, label, ok) ==
  /\ connReq.pc = "idle"
  /\ IF ok
     THEN /\ connReq' = [pc |-> "write", org |-> org, label |-> label,
                          existing |-> RowsByName(org, label) # {}]
          /\ UNCHANGED integrations
     ELSE /\ integrations' = SetStatus(RowsByName(org, label), "error")
          /\ RowsByName(org, label) # {}
          /\ UNCHANGED connReq
  /\ UNCHANGED <<now, engine, users, rateVars, ipVars, routeVars, verifier, bus,
                 boot, outboundVars,
                 tenantVars, authVars, socketVars>>

\* ... then UPDATE ... 'active' by name, or INSERT the integration 'active'
SaveConnectionWrite ==
  /\ connReq.pc = "write"
  /\ connReq.existing \/ Len(integrations) < MaxIntegrations
  /\ IF connReq.existing
     THEN integrations' = SetStatus(RowsByName(connReq.org, connReq.label), "active")
     ELSE integrations' = Append(integrations,
            [org_id |-> connReq.org, name |-> connReq.label, status |-> "active",
             test_url |-> NoUrl, last_checked |-> now, deleted |-> FALSE])
  /\ connReq' = IdleConnReq
  /\ UNCHANGED <<now, engine, users, rateVars, ipVars, routeVars, verifier, bus,
                 boot, outboundVars,
                 tenantVars, authVars, socketVars>>

\* the status one check of autoVerifyIntegrations writes: 'active' in the
\* try after the provider call resolved, 'error' in its catch and in the
\* else of the credentials test (variant: 'active' whenever the call
\* resolved)
StartupStatusAnyEnv(configured, ok) == IF ok THEN "active" ELSE "error"

StartupStatus(configured, ok) ==
  IF configured /\ ok THEN "active" ELSE "error"

\* what the check learnt from the provider: nothing without credentials
StartupProbe(configured, ok) ==
  IF ~configured THEN "none" ELSE IF ok THEN "ok" ELSE "failed"

\* one check of autoVerifyIntegrations for provider p, then on to pc next
AutoVerify(p, ok, next) ==
  /\ integrations' = SetStatus(RowsByLowerName(p),
                                StartupStatus(boot.env[p], ok))
  /\ boot' = [boot EXCEPT !.pc = next,
                          !.probed[p] = StartupProbe(boot.env[p], ok)]

\* autoVerifyIntegrations, Flutterwave: fw.ping() with the configured key,
\* then UPDATE ... WHERE LOWER(name) = 'flutterwave'; 'error' without a key
AutoVerifyFlutterwave(ok) ==
  /\ boot.pc = "flutterwave"
  /\ AutoVerify("flutterwave", ok, "mtn")
  /\ UNCHANGED <<now, engine, users, rateVars, ipVars, routeVars, verifier, bus,
                 connReq, outboundVars,
                 tenantVars, authVars, socketVars>>

\* autoVerifyIntegrations, MTN MoMo: getAccessToken, then UPDATE ... WHERE
\* LOWER(name) = 'mtn mobile money'
AutoVerifyMtn(ok) ==
  /\ boot.pc = "mtn"
  /\ AutoVerify("mtn mobile money", ok, "done")
  /\ UNCHANGED <<now, engine, users, rateVars, ipVars, routeVars, verifier, bus,
                 connReq, outboundVars,
                 tenantVars, authVars, socketVars>>

VerifyInit == Init

VerifierNext ==
  \/ \E w \in 1..MaxVerifications : VerifyWake(w)
  \/ \E w \in 1..MaxVerifications : \E o \in ProbeOutcomes : VerifyProbeResult(w, o)
  \/ \E w \in 1..MaxVerifications : VerifyNotify(w)

\* the integrations routes of the dashboard router
DashboardNext ==
  \/ \E org \in 1..MaxOrgs : \E name \in IntegrationNames : \E url \in TestUrls :
        CreateIntegration(org, name, url)
  \/ \E org \in 1..MaxOrgs : \E id \in 1..MaxIntegrations :
        ReverifyIntegration(org, id)
  \/ \E org \in 1..MaxOrgs : \E id \in 1..MaxIntegrations : \E url \in TestUrls :
        PatchIntegration(org, id, url)
  \/ \E org \in 1..MaxOrgs : \E id \in 1..MaxIntegrations :
        DeleteIntegration(org, id)

VerifyNext ==
  \/ Tick
  \/ DashboardNext
  \/ VerifierNext

\* the dashboard routes and the verifier tasks
VerifySpec == VerifyInit /\ [][VerifyNext]_vars

\* every writer of integrations.status
IntegrationsNext ==
  \/ DashboardNext
  \/ VerifierNext
  \/ \E org \in 1..MaxOrgs : \E label \in IntegrationNames : \E ok \in BOOLEAN :
        SaveConnectionTest(org, label, ok)
  \/ SaveConnectionWrite
  \/ \E ok \in BOOLEAN : AutoVerifyFlutterwave(ok)
  \/ \E ok \in BOOLEAN : AutoVerifyMtn(ok)

IntegrationsSpec == VerifyInit /\ [][IntegrationsNext]_vars

\* the timer of verifyAfterDelay fires, its fetch settles (it is aborted
\* after 6 s) and its store calls return: a started task keeps running
VerifyLiveSpec == VerifyInit /\ [][VerifyNext]_vars /\ WF_vars(VerifierNext)

\* ------------------------------------------------------- process start
RowStatuses == {"pending", "active", "error"}

\* the integrations table as an earlier process left it
StoredIntegrations ==
  {<<>>} \cup
  {<<[org_id |-> org, name |-> name, status |-> status,
      test_url |-> ExampleUrl, last_checked |-> 0, deleted |-> FALSE]>> :
     org \in 1..MaxOrgs, name \in IntegrationNames, status \in RowStatuses}

\* a process starts on a stored table, with or without the credentials of
\* each provider in its environment
StartupInit ==
  /\ EngineIdle /\ PlanIdle /\ users = DefaultUsers
  /\ RateIdle /\ IpIdle /\ RouteIdle /\ TenantIdle /\ AuthIdle /\ SocketIdle
  /\ OutboundIdle
  /\ integrations \in StoredIntegrations
  /\ verifier = <<>>
  /\ bus = <<>>
  /\ connReq = IdleConnReq
  /\ \E creds \in [Providers -> BOOLEAN] : boot = StartOfBoot(creds)

\* the startup check next to the dashboard routes, which the server
\* serves from the moment it listens
StartupNext ==
  \/ \E ok \in BOOLEAN : AutoVerifyFlutterwave(ok)
  \/ \E ok \in BOOLEAN : AutoVerifyMtn(ok)
  \/ DashboardNext
  \/ VerifierNext

StartupSpec == StartupInit /\ [][StartupNext]_vars

\* ------------------------------------------------------ re-verification
\* a stored table of two rows, the first of them active
VerifiedTables ==
  {<<[org_id |-> o1, name |-> n1, status |-> "active",
      test_url |-> u1, last_checked |-> 0, deleted |-> FALSE],
     [org_id |-> o2, name |-> n2, status |-> s2,
      test_url |-> ExampleUrl, last_checked |-> 0, deleted |-> FALSE]>> :
     o1 \in 1..MaxOrgs, n1 \in IntegrationNames, u1 \in TestUrls,
     o2 \in 1..MaxOrgs, n2 \in IntegrationNames, s2 \in RowStatuses}

ReverifyInit ==
  /\ EngineIdle /\ PlanIdle /\ users = DefaultUsers
  /\ RateIdle /\ IpIdle /\ RouteIdle /\ TenantIdle /\ AuthIdle /\ SocketIdle
  /\ OutboundIdle
  /\ integrations \in VerifiedTables
  /\ verifier = <<>>
  /\ bus = <<>>
  /\ connReq = IdleConnReq
  /\ boot = IdleBoot

\* users re-run the verification of stored integrations
ReverifyNext ==
  \/ Tick
  \/ \E org \in 1..MaxOrgs : \E id \in DOMAIN integrations :
        ReverifyIntegration(org, id)
  \/ VerifierNext

ReverifySpec == ReverifyInit /\ [][ReverifyNext]_vars

\* users re-run the verification of stored integrations and delete them
RemovalNext ==
  \/ Tick
  \/ \E org \in 1..MaxOrgs : \E id \in DOMAIN integrations :
        ReverifyIntegration(org, id)
  \/ \E org \in 1..MaxOrgs : \E id \in DOMAIN integrations :
        DeleteIntegration(org, id)
  \/ VerifierNext

RemovalSpec == ReverifyInit /\ [][RemovalNext]_vars

\* concurrent version requests on the flows
VersionNext ==
  \/ \E org \in 1..MaxOrgs : CreateFlow(org)
  \/ \E f \in 1..MaxFlows : SoftDeleteFlow(f)
  \/ \E r \in 1..MaxVersionReqs : \E f \in 1..MaxFlows : VersionCheckFlow(r, f)
  \/ \E r \in 1..MaxVersionReqs : VersionReadMax(r)
  \/ \E r \in 1..MaxVersionReqs : \E g \in SampleGraphs : VersionInsert(r, g)

VersionSpec == Init /\ [][VersionNext]_vars

\* ===================================================================
\* Executions routes under a principal (routes/executions.js)
\* ===================================================================
\* the slot of an execution whose row a DELETE removed: ids are never
\* reused, and no query finds a row in the slot
NoExecution ==
  [flow_id |-> 0, flow_version |-> 0, trigger_type |-> NoText,
   status |-> NoText, started_at |-> NULL, completed_at |-> NULL,
   error_message |-> NoText, execution_time_ms |-> NULL]

LogsOf(e) == {i \in DOMAIN execution_logs : execution_logs[i].execution_id = e}

\* requireAuth: the cookie's token is verified and req.user is set; the
\* handlers below then run for that client
Authenticate(org) ==
  /\ startReq.pc = "idle"
  /\ delReq.pc = "idle"
  /\ reqUser # org
  /\ reqUser' = org
  /\ UNCHANGED <<now, engine, users, rateVars, ipVars, routeVars, verifyVars,
                 outboundVars, socketVars, authVars, execution_logs, apiRes, delReq>>

\* FlowExecutor.log: INSERT INTO execution_logs; an error (the execution row
\* is gone) is caught and only printed
WriteLog(e) ==
  /\ e \in ExecIds
  /\ executor[e].pc # "done"
  /\ Cardinality(LogsOf(e)) < MaxLogs
  /\ IF flow_executions[e] = NoExecution
     THEN UNCHANGED execution_logs
     ELSE execution_logs' = Append(execution_logs,
             [execution_id |-> e, level |-> "info"])
  /\ UNCHANGED <<now, engine, users, rateVars, ipVars, routeVars, verifyVars,
                 outboundVars, socketVars, authVars, reqUser, apiRes, delReq>>

\* SELECT e.*, f.name FROM flow_executions e JOIN flows f ON f.id = e.flow_id
\* WHERE e.id = $1
ExecutionRows(e) ==
  {x \in ExecIds : x = e /\ flow_executions[x].flow_id \in DOMAIN flows}

Answer(op, code, executions) ==
  [op |-> op, code |-> code, executions |-> executions, flows |-> {}]

\* GET /:executionId
GetExecution(e) ==
  /\ reqUser # NoOrg
  /\ apiRes' = IF ExecutionRows(e) = {}
               THEN Answer("getExecution", 404, {})
               ELSE Answer("getExecution", 200, ExecutionRows(e))
  /\ UNCHANGED <<now, engine, users, rateVars, ipVars, routeVars, verifyVars,
                 outboundVars, socketVars, authVars, reqUser, execution_logs, delReq>>

\* GET /:executionId/steps: SELECT * FROM execution_steps WHERE execution_id = $1
GetSteps(e) ==
  /\ reqUser # NoOrg
  /\ apiRes' = Answer("getExecutionSteps", 200,
                      IF StepsOf(e) = {} THEN {} ELSE {e})
  /\ UNCHANGED <<now, engine, users, rateVars, ipVars, routeVars, verifyVars,
                 outboundVars, socketVars, authVars, reqUser, execution_logs, delReq>>

\* GET /:executionId/logs: SELECT * FROM execution_logs WHERE execution_id = $1
GetLogs(e) ==
  /\ reqUser # NoOrg
  /\ apiRes' = Answer("getExecutionLogs", 200,
                      IF LogsOf(e) = {} THEN {} ELSE {e})
  /\ UNCHANGED <<now, engine, users, rateVars, ipVars, routeVars, verifyVars,
                 outboundVars, socketVars, authVars, reqUser, execution_logs, delReq>>

\* GET /flow/:flowId: SELECT * FROM flow_executions WHERE flow_id = $1
ListFlowExecutions(f) ==
  /\ reqUser # NoOrg
  /\ apiRes' = Answer("getFlowExecutions", 200,
                      {x \in ExecIds : flow_executions[x].flow_id = f})
  /\ UNCHANGED <<now, engine, users, rateVars, ipVars, routeVars, verifyVars,
                 outboundVars, socketVars, authVars, reqUser, execution_logs, delReq>>

\* GET /recent: ... JOIN flows f ON f.id = e.flow_id WHERE f.org_id = $1
ListRecentForOrg ==
  /\ reqUser # NoOrg
  /\ apiRes' = Answer("recent", 200,
                      {x \in ExecIds : /\ flow_executions[x].flow_id \in DOMAIN flows
                                       /\ flows[flow_executions[x].flow_id].org_id = reqUser})
  /\ UNCHANGED <<now, engine, users, rateVars, ipVars, routeVars, verifyVars,
                 outboundVars, socketVars, authVars, reqUser, execution_logs, delReq>>

\* variant of the ownership query without the f.org_id = $2 condition
OwnedRowsAnyOrg(e, org) == ExecutionRows(e)

\* SELECT e.id FROM flow_executions e JOIN flows f ON f.id = e.flow_id
\* WHERE e.id = $1 AND f.org_id = $2
OwnedRows(e, org) ==
  {x \in ExecutionRows(e) : flows[flow_executions[x].flow_id].org_id = org}

\* DELETE /:executionId up to the ownership query's answer
DeleteCheck(e) ==
  /\ reqUser # NoOrg
  /\ delReq.pc = "idle"
  /\ IF OwnedRows(e, reqUser) = {}
     THEN /\ apiRes' = Answer("deleteExecution", 404, {})
          /\ UNCHANGED delReq
     ELSE /\ delReq' = [pc |-> "logs", executionId |-> e]
          /\ UNCHANGED apiRes
  /\ UNCHANGED <<now, engine, users, rateVars, ipVars, routeVars, verifyVars,
                 outboundVars, socketVars, authVars, reqUser, execution_logs>>

WithoutExecution(rows, e) == SelectSeq(rows, LAMBDA row : row.execution_id # e)

\* DELETE FROM execution_logs WHERE execution_id = $1
DeleteLogs ==
  /\ delReq.pc = "logs"
  /\ execution_logs' = WithoutExecution(execution_logs, delReq.executionId)
  /\ delReq' = [delReq EXCEPT !.pc = "steps"]
  /\ UNCHANGED <<now, engine, users, rateVars, ipVars, routeVars, verifyVars,
                 outboundVars, socketVars, authVars, reqUser, apiRes>>

\* DELETE FROM execution_steps WHERE execution_id = $1
DeleteSteps ==
  /\ delReq.pc = "steps"
  /\ execution_steps' = WithoutExecution(execution_steps, delReq.executionId)
  /\ delReq' = [delReq EXCEPT !.pc = "row"]
  /\ UNCHANGED <<now, flows, flow_versions, flow_executions, executor,
                 startReq, response, planGraph, planOut, versionReq,
                 users, rateVars, ipVars, routeVars, verifyVars,
                 outboundVars, socketVars, authVars, reqUser, execution_logs, apiRes>>

\* variant of the last DELETE on tables without the ON DELETE CASCADE
\* references: only the flow_executions row goes
DeleteRowNoCascade ==
  /\ delReq.pc = "row"
  /\ LET e == delReq.executionId IN
     IF flow_executions[e] = NoExecution
     THEN /\ apiRes' = Answer("deleteExecution", 404, {})
          /\ UNCHANGED flow_executions
     ELSE /\ flow_executions' = [flow_executions EXCEPT ![e] = NoExecution]
          /\ apiRes' = Answer("deleteExecution", 200, {e})
  /\ delReq' = IdleDelReq
  /\ UNCHANGED <<now, flows, flow_versions, executor, execution_steps,
                 startReq, response, planGraph, planOut, versionReq,
                 users, rateVars, ipVars, routeVars, verifyVars,
                 outboundVars, socketVars, authVars, reqUser, execution_logs>>

\* DELETE FROM flow_executions WHERE id = $1 RETURNING id; the rows of
\* execution_steps and execution_logs that reference it go with it
\* (ON DELETE CASCADE); no row deleted is answered 404
DeleteRow ==
  /\ delReq.pc = "row"
  /\ LET e == delReq.executionId IN
     IF flow_executions[e] = NoExecution
     THEN /\ apiRes' = Answer("deleteExecution", 404, {})
          /\ UNCHANGED <<flow_executions, execution_steps, execution_logs>>
     ELSE /\ flow_executions' = [flow_executions EXCEPT ![e] = NoExecution]
          /\ execution_steps' = WithoutExecution(execution_steps, e)
          /\ execution_logs' = WithoutExecution(execution_logs, e)
          /\ apiRes' = Answer("deleteExecution", 200, {e})
  /\ delReq' = IdleDelReq
  /\ UNCHANGED <<now, flows, flow_versions, executor,
                 startReq, response, planGraph, planOut, versionReq,
                 users, rateVars, ipVars, routeVars, verifyVars,
                 outboundVars, socketVars, authVars, reqUser>>

\* a finished run of ChainGraph: one completed step per node of the plan
StepsOfRun(e) ==
  [i \in 1..Len(ChainGraph.nodes) |->
     [execution_id |-> e, node_id |-> ChainGraph.nodes[i].id,
      node_type |-> ChainGraph.nodes[i].type, status |-> "completed",
      completed_at |-> 0, error_message |-> NoText,
      execution_time_ms |-> 0,
      input_data |-> IF i = 1 THEN <<>>
                     ELSE [p \in {ChainGraph.nodes[i - 1].id} |->
                             IF i = 2 THEN JsonObject ELSE HttpOutput(200)],
      output_data |-> CASE i = 1 -> JsonObject
                        [] i = 2 -> HttpOutput(200)
                        [] OTHER -> EndOutput]]

FinishedExecution(f) ==
  [flow_id |-> f, flow_version |-> 1, trigger_type |-> "manual",
   status |-> "completed", started_at |-> 0, completed_at |-> 0,
   error_message |-> NoText, execution_time_ms |-> 0]

\* the store after some flows were created, given a first version and
\* possibly run to completion, before the requests below arrive
TenantInit ==
  /\ now = 0
  /\ PlanIdle
  /\ users = DefaultUsers
  /\ RateIdle /\ IpIdle /\ RouteIdle /\ VerifyIdle /\ AuthIdle /\ SocketIdle /\ OutboundIdle
  /\ startReq = IdleStartReq
  /\ response = [kind |-> "none"]
  /\ versionReq = [r \in 1..MaxVersionReqs |-> IdleVersionReq]
  /\ \E org \in 1..MaxOrgs : reqUser = org
  /\ apiRes = IdleApiRes
  /\ delReq = IdleDelReq
  /\ \E n \in 1..MaxFlows : \E orgs \in [1..n -> 1..MaxOrgs] :
       /\ flows = [f \in 1..n |->
                     [org_id |-> orgs[f], status |-> "draft", is_deleted |-> FALSE]]
       /\ flow_versions = [f \in 1..n |->
                     [flow_id |-> f, version |-> 1, graph |-> ChainGraph]]
       /\ \E m \in 0..MaxExec : \E on \in [1..m -> 1..n] : \E logs \in 0..MaxLogs :
            /\ flow_executions = [e \in 1..m |-> FinishedExecution(on[e])]
            /\ executor = [e \in 1..m |-> [NewExecutor EXCEPT !.pc = "done"]]
            /\ execution_steps =
                 IF m = 0 THEN <<>> ELSE StepsOfRun(1)
            /\ execution_logs =
                 IF m = 0 THEN <<>>
                 ELSE [i \in 1..logs |-> [execution_id |-> 1, level |-> "info"]]

TenantNext ==
  \/ \E org \in 1..MaxOrgs : Authenticate(org)
  \/ \E e \in 1..MaxExec : WriteLog(e)
  \/ \E e \in 1..MaxExec : GetExecution(e)
  \/ \E e \in 1..MaxExec : GetSteps(e)
  \/ \E e \in 1..MaxExec : GetLogs(e)
  \/ \E f \in 1..MaxFlows : ListFlowExecutions(f)
  \/ ListRecentForOrg
  \/ \E f \in 1..MaxFlows : StartRead(f)
  \/ StartInsert
  \/ \E e \in 1..MaxExec : CancelExecution(e)
  \/ \E e \in 1..MaxExec : DeleteCheck(e)
  \/ DeleteLogs
  \/ DeleteSteps
  \/ DeleteRow

TenantSpec == TenantInit /\ [][TenantNext]_vars

\* ---------------------------------------- the executor of a deleted execution
\* insert or update on table "execution_steps" violates foreign key constraint
ForeignKeyMessage == "violates foreign key constraint"

ExecutionStored(e) == flow_executions[e] # NoExecution

\* WHERE id = $stepId: the row executeNode inserted for the current node,
\* when it is still stored (UNIQUE (execution_id, node_id))
CurrentStepRows(e) ==
  {i \in StepsOf(e) : execution_steps[i].node_id = CurrentNode(e).id}

\* executeNode's INSERT INTO execution_steps under execution_id REFERENCES
\* flow_executions(id): without the execution row the INSERT throws, and
\* as it stands before executeNode's try, execute's catch runs next
InsertStepFK(e) ==
  /\ e \in ExecIds
  /\ executor[e].pc = "insert_step"
  /\ IF ExecutionStored(e)
     THEN /\ execution_steps' = Append(execution_steps,
                [execution_id |-> e, node_id |-> CurrentNode(e).id,
                 node_type |-> CurrentNode(e).type, status |-> "running",
                 completed_at |-> NULL, error_message |-> NoText,
                 execution_time_ms |-> NULL, input_data |-> NoInput,
                 output_data |-> NoData])
          /\ executor' = [executor EXCEPT ![e] =
                [@ EXCEPT !.pc = "run_node", !.stepId = Len(execution_steps) + 1,
                          !.stepStart = now]]
     ELSE /\ UNCHANGED execution_steps
          /\ executor' = [executor EXCEPT ![e] = AfterThrow(@, ForeignKeyMessage)]
  /\ UNCHANGED <<now, flows, flow_versions, flow_executions, startReq,
                 response, planGraph, planOut,
                 versionReq, aside>>

\* UPDATE execution_steps SET status = 'completed' ... WHERE id = $4: a step
\* row deleted meanwhile is not matched, and the loop goes on
CompleteStepById(e) ==
  /\ e \in ExecIds
  /\ executor[e].pc = "run_node"
  /\ \E status \in HttpStatuses :
       /\ CurrentNode(e).type = "action" \/ status = 200
       /\ LET output == NodeOutput(executor[e], CurrentNode(e), status) IN
            /\ execution_steps' = [i \in DOMAIN execution_steps |->
                  IF i \in CurrentStepRows(e)
                  THEN [execution_steps[i] EXCEPT
                          !.status = "completed", !.completed_at = now,
                          !.execution_time_ms = now - executor[e].stepStart,
                          !.input_data = InputData(executor[e], CurrentNode(e)),
                          !.output_data = output]
                  ELSE execution_steps[i]]
            /\ executor' = [executor EXCEPT ![e] =
                  AfterNode(StoreOutput(@, CurrentNode(e).id, output))]
  /\ UNCHANGED <<now, flows, flow_versions, flow_executions, startReq,
                 response, planGraph, planOut,
                 versionReq, aside>>

\* UPDATE execution_steps SET status = 'failed' ... WHERE id = $3, throw
FailStepById(e, msg) ==
  /\ e \in ExecIds
  /\ executor[e].pc = "run_node"
  /\ CanThrow(CurrentNode(e))
  /\ execution_steps' = [i \in DOMAIN execution_steps |->
        IF i \in CurrentStepRows(e)
        THEN [execution_steps[i] EXCEPT
                !.status = "failed", !.completed_at = now,
                !.error_message = msg,
                !.execution_time_ms = now - executor[e].stepStart]
        ELSE execution_steps[i]]
  /\ executor' = [executor EXCEPT ![e] = AfterThrow(@, msg)]
  /\ UNCHANGED <<now, flows, flow_versions, flow_executions, startReq,
                 response, planGraph, planOut,
                 versionReq, aside>>

\* the final UPDATE flow_executions ... WHERE id = $n of execute(), in its
\* try and in its catch: without the row it matches nothing
MarkEndedById(e) ==
  /\ e \in ExecIds
  /\ executor[e].pc \in {"finalize", "fail"}
  /\ flow_executions' = [flow_executions EXCEPT ![e] =
        IF ~ExecutionStored(e) THEN @
        ELSE IF executor[e].pc = "finalize"
        THEN CompletedUpdate(@, executor[e].startTime)
        ELSE FailedUpdate(@, executor[e].error, executor[e].startTime)]
  /\ executor' = [executor EXCEPT ![e].pc = "done"]
  /\ UNCHANGED <<now, flows, flow_versions, execution_steps, startReq,
                 response, planGraph, planOut,
                 versionReq, aside>>

RunningExecution(f) ==
  [flow_id |-> f, flow_version |-> 1, trigger_type |-> "manual",
   status |-> "running", started_at |-> 0, completed_at |-> NULL,
   error_message |-> NoText, execution_time_ms |-> NULL]

\* an execution of ChainGraph was started and its executor has built the
\* plan; the requests below arrive while it runs
DeleteRunningInit ==
  /\ now = 0
  /\ PlanIdle
  /\ users = DefaultUsers
  /\ RateIdle /\ IpIdle /\ RouteIdle /\ VerifyIdle /\ AuthIdle /\ SocketIdle /\ OutboundIdle
  /\ startReq = IdleStartReq
  /\ response = [kind |-> "none"]
  /\ versionReq = [r \in 1..MaxVersionReqs |-> IdleVersionReq]
  /\ \E org \in 1..MaxOrgs : reqUser = org
  /\ apiRes = IdleApiRes
  /\ delReq = IdleDelReq
  /\ \E org \in 1..MaxOrgs :
       flows = <<[org_id |-> org, status |-> "draft", is_deleted |-> FALSE]>>
  /\ flow_versions = <<[flow_id |-> 1, version |-> 1, graph |-> ChainGraph]>>
  /\ flow_executions = <<RunningExecution(1)>>
  /\ \E triggerData \in TriggerDatas :
       executor = <<[NewExecutor EXCEPT
                       !.triggerData = triggerData,
                       !.graph = ChainGraph,
                       !.plan = buildExecutionPlan(ChainGraph).plan,
                       !.idx = 1,
                       !.pc = "insert_step"]>>
  /\ execution_steps = <<>>
  /\ execution_logs = <<>>

DeleteRunningNext ==
  \/ Tick
  \/ \E org \in 1..MaxOrgs : Authenticate(org)
  \/ \E e \in 1..MaxExec : WriteLog(e)
  \/ \E e \in 1..MaxExec : InsertStepFK(e)
  \/ \E e \in 1..MaxExec : CompleteStepById(e)
  \/ \E e \in 1..MaxExec : \E msg \in HttpErrors : FailStepById(e, msg)
  \/ \E e \in 1..MaxExec : MarkEndedById(e)
  \/ \E e \in 1..MaxExec : DeleteCheck(e)
  \/ DeleteLogs
  \/ DeleteSteps
  \/ DeleteRow

DeleteRunningSpec == DeleteRunningInit /\ [][DeleteRunningNext]_vars

\* ===================================================================
\* Flows routes under a principal (routes/flows.js)
\* ===================================================================
FlowAnswer(op, code, flowIds) ==
  [op |-> op, code |-> code, executions |-> {}, flows |-> flowIds]

\* GET /api/flows: ... WHERE f.is_deleted = FALSE AND f.org_id = $1
ListFlows ==
  /\ reqUser # NoOrg
  /\ apiRes' = FlowAnswer("listFlows", 200,
        {f \in DOMAIN flows : ~flows[f].is_deleted /\ flows[f].org_id = reqUser})
  /\ UNCHANGED <<now, engine, users, rateVars, ipVars, routeVars, verifyVars,
                 outboundVars, socketVars, authVars, reqUser, execution_logs, delReq>>

\* GET /api/flows/:id: SELECT * FROM flows WHERE id = $1 AND org_id = $2
\* AND is_deleted = FALSE
GetFlow(f) ==
  /\ reqUser # NoOrg
  /\ apiRes' =
       IF f \in DOMAIN flows /\ flows[f].org_id = reqUser /\ ~flows[f].is_deleted
       THEN FlowAnswer("getFlow", 200, {f})
       ELSE FlowAnswer("getFlow", 404, {})
  /\ UNCHANGED <<now, engine, users, rateVars, ipVars, routeVars, verifyVars,
                 outboundVars, socketVars, authVars, reqUser, execution_logs, delReq>>

\* GET /api/flows/:id/versions: SELECT id FROM flows WHERE id = $1 AND
\* is_deleted = FALSE, then the flow's versions
ListVersions(f) ==
  /\ reqUser # NoOrg
  /\ apiRes' =
       IF f \in DOMAIN flows /\ ~flows[f].is_deleted
       THEN FlowAnswer("listVersions", 200, {f})
       ELSE FlowAnswer("listVersions", 404, {})
  /\ UNCHANGED <<now, engine, users, rateVars, ipVars, routeVars, verifyVars,
                 outboundVars, socketVars, authVars, reqUser, execution_logs, delReq>>

Statuses == {"inactive", "active", "draft"}

\* variant of the deploy test that starts an execution for every status
StartsOnStatusAny(status) == status \in Statuses

\* if (status === 'active')
StartsOnStatus(status) == status = "active"

StatusResponse(f, executionId) ==
  [kind |-> "status", flowId |-> f, code |-> 200, executionId |-> executionId]

\* PATCH /api/flows/:id/status up to the call of startExecution:
\* UPDATE flows SET status = $1 WHERE id = $2 AND is_deleted = FALSE; no row
\* updated is answered 404
StatusUpdate(f, status) ==
  /\ startReq.pc = "idle"
  /\ StartsOnStatus(status) => Len(flow_executions) < MaxExec
  /\ IF f \notin DOMAIN flows \/ flows[f].is_deleted
     THEN /\ response' = [kind |-> "error", flowId |-> f, code |-> 404,
                          error |-> "Flow not found"]
          /\ UNCHANGED <<flows, startReq>>
     ELSE /\ flows' = [flows EXCEPT ![f].status = status]
          /\ IF StartsOnStatus(status)
             THEN /\ startReq' = [pc |-> "deploy", flowId |-> f,
                                  latest_version |-> 0, trigger_type |-> "deploy"]
                  /\ UNCHANGED response
             ELSE /\ response' = StatusResponse(f, NULL)
                  /\ UNCHANGED startReq
  /\ UNCHANGED <<now, flow_versions, flow_executions, execution_steps,
                 executor, planGraph, planOut, versionReq, aside>>

\* startExecution(id, 'deploy', ...) up to its first store call's answer; an
\* error is caught by the route, which answers the updated flow with
\* execution: null
DeployRead ==
  /\ startReq.pc = "deploy"
  /\ IF \/ FlowLookup(startReq.flowId) = {}
        \/ \E flow \in FlowLookup(startReq.flowId) : flow.latest_version = 0
     THEN /\ response' = StatusResponse(startReq.flowId, NULL)
          /\ startReq' = IdleStartReq
     ELSE /\ startReq' = [startReq EXCEPT
                !.pc = "deploy_insert",
                !.latest_version = LatestVersion(startReq.flowId)]
          /\ UNCHANGED response
  /\ UNCHANGED <<now, flows, flow_versions, flow_executions, execution_steps,
                 executor, planGraph, planOut, versionReq, aside>>

\* startExecution's INSERT INTO flow_executions and executor launch, then the
\* route's answer: the updated flow with the execution started
DeployInsert ==
  /\ startReq.pc = "deploy_insert"
  /\ flow_executions' = Append(flow_executions,
        [flow_id |-> startReq.flowId, flow_version |-> startReq.latest_version,
         trigger_type |-> startReq.trigger_type,
         status |-> "running", started_at |-> now, completed_at |-> NULL,
         error_message |-> NoText, execution_time_ms |-> NULL])
  /\ executor' = Append(executor, NewExecutor)
  /\ response' = StatusResponse(startReq.flowId, Len(flow_executions) + 1)
  /\ startReq' = IdleStartReq
  /\ UNCHANGED <<now, flows, flow_versions, execution_steps, planGraph, planOut,
                 versionReq, aside>>

FlowsInit ==
  /\ EngineIdle
  /\ PlanIdle
  /\ users = DefaultUsers
  /\ RateIdle /\ IpIdle /\ RouteIdle /\ VerifyIdle /\ AuthIdle /\ SocketIdle /\ OutboundIdle
  /\ \E org \in 1..MaxOrgs : reqUser = org
  /\ execution_logs = <<>>
  /\ apiRes = IdleApiRes
  /\ delReq = IdleDelReq

FlowsNext ==
  \/ \E org \in 1..MaxOrgs : Authenticate(org)
  \/ CreateFlow(reqUser)
  \/ ListFlows
  \/ \E f \in 1..MaxFlows : GetFlow(f)
  \/ \E f \in 1..MaxFlows : ListVersions(f)
  \/ \E f \in 1..MaxFlows : VersionCheckFlow(1, f)
  \/ VersionReadMax(1)
  \/ VersionInsert(1, ChainGraph)
  \/ \E f \in 1..MaxFlows : SoftDeleteFlow(f)
  \/ \E f \in 1..MaxFlows : \E status \in Statuses : StatusUpdate(f, status)
  \/ DeployRead
  \/ DeployInsert
  \/ \E f \in 1..MaxFlows : StartRead(f)
  \/ StartInsert

FlowsSpec == FlowsInit /\ [][FlowsNext]_vars

\* ===================================================================
\* Accounts (routes/auth.js)
\* ===================================================================
Emails    == 1..MaxEmails
Codes     == {"123456", "654321"}
Passwords == {"Passw0rd!", "Wr0ngPass!"}

\* bcrypt.hash(password, 10)
Hash(password) == <<"$2b$10$", password>>

PendingOf(email) == {p \in pending_users : p.email = email}
AccountsOf(email) == {i \in DOMAIN accounts : accounts[i].email = email}

AuthAnswer(route, code, error) == [route |-> route, code |-> code, error |-> error]

\* POST /signup: an email with a users row is refused; otherwise the
\* pending_users row of the email gets the new code, or is inserted
Signup(email, password, code) ==
  /\ IF AccountsOf(email) # {}
     THEN /\ authRes' = AuthAnswer("signup", 400, "Email already registered. Try logging in.")
          /\ UNCHANGED pending_users
     ELSE /\ pending_users' =
               IF PendingOf(email) # {}
               THEN {IF p.email = email THEN [p EXCEPT !.verification_code = code] ELSE p :
                       p \in pending_users}
               ELSE pending_users \cup
                      {[email |-> email, password_hash |-> Hash(password),
                        verification_code |-> code]}
          /\ authRes' = AuthAnswer("signup", 201, NoText)
  /\ UNCHANGED <<now, engine, users, rateVars, ipVars, routeVars, verifyVars,
                 outboundVars, socketVars, tenantVars, accounts, signupReq, reactReq>>

\* POST /verify up to the answer of SELECT * FROM pending_users WHERE email=$1
\* and the comparison of the code
VerifyRead(r, email, code) ==
  /\ signupReq[r].pc = "idle"
  /\ IF PendingOf(email) = {}
     THEN /\ authRes' = AuthAnswer("verify", 400, "No pending account for this email.")
          /\ UNCHANGED signupReq
     ELSE LET p == CHOOSE row \in PendingOf(email) : TRUE IN
          IF p.verification_code # code
          THEN /\ authRes' = AuthAnswer("verify", 400, "Invalid verification code.")
               /\ UNCHANGED signupReq
          ELSE /\ signupReq' = [signupReq EXCEPT ![r] = [pc |-> "insert", p |-> p]]
               /\ UNCHANGED authRes
  /\ UNCHANGED <<now, engine, users, rateVars, ipVars, routeVars, verifyVars,
                 outboundVars, socketVars, tenantVars, accounts, pending_users, reactReq>>

\* INSERT INTO users (org_id, email, ...): refused by UNIQUE(email) when the
\* email has a row, and the catch answers 500
VerifyInsert(r) ==
  /\ signupReq[r].pc = "insert"
  /\ IF AccountsOf(signupReq[r].p.email) # {}
     THEN /\ authRes' = AuthAnswer("verify", 500, "Server error")
          /\ signupReq' = [signupReq EXCEPT ![r] = IdleSignupReq]
          /\ UNCHANGED accounts
     ELSE /\ accounts' = Append(accounts,
                [email |-> signupReq[r].p.email,
                 password_hash |-> signupReq[r].p.password_hash,
                 deactivated_at |-> NULL])
          /\ signupReq' = [signupReq EXCEPT ![r].pc = "delete"]
          /\ UNCHANGED authRes
  /\ UNCHANGED <<now, engine, users, rateVars, ipVars, routeVars, verifyVars,
                 outboundVars, socketVars, tenantVars, pending_users, reactReq>>

\* DELETE FROM pending_users WHERE email=$1, then the 200 answer
VerifyDelete(r) ==
  /\ signupReq[r].pc = "delete"
  /\ pending_users' = pending_users \ PendingOf(signupReq[r].p.email)
  /\ authRes' = AuthAnswer("verify", 200, NoText)
  /\ signupReq' = [signupReq EXCEPT ![r] = IdleSignupReq]
  /\ UNCHANGED <<now, engine, users, rateVars, ipVars, routeVars, verifyVars,
                 outboundVars, socketVars, tenantVars, accounts, reactReq>>

SignupNext ==
  \/ \E email \in Emails : \E password \in Passwords : \E code \in Codes :
        Signup(email, password, code)
  \/ \E r \in 1..MaxVerifyReqs : \E email \in Emails : \E code \in Codes :
        VerifyRead(r, email, code)
  \/ \E r \in 1..MaxVerifyReqs : VerifyInsert(r)
  \/ \E r \in 1..MaxVerifyReqs : VerifyDelete(r)

SignupSpec == Init /\ [][SignupNext]_vars

\* a JSON value of the request body, with its JavaScript type
JsonString(text) == [type |-> "string", text |-> text]
JsonNumber(text) == [type |-> "number", text |-> text]

\* password values a login request may carry (all truthy)
LoginPasswords == {JsonString(p) : p \in Passwords} \cup {JsonNumber("12345")}

\* POST /login after the presence test of email and password: the users row
\* is looked up by email; no row is answered 401; bcrypt.compare rejects data
\* that is not a string, and the catch answers 500; a mismatch is answered
\* 401 with the same body as no row
LoginAnswer(email, password) ==
  IF AccountsOf(email) = {}
  THEN AuthAnswer("login", 401, "Invalid email or password.")
  ELSE LET user == accounts[CHOOSE i \in AccountsOf(email) : TRUE] IN
       IF password.type # "string"
       THEN AuthAnswer("login", 500, "Server error")
       ELSE IF Hash(password.text) # user.password_hash
       THEN AuthAnswer("login", 401, "Invalid email or password.")
       ELSE AuthAnswer("login", 200, NoText)

Login(email, password) ==
  /\ authRes' = LoginAnswer(email, password)
  /\ UNCHANGED <<now, engine, users, rateVars, ipVars, routeVars, verifyVars,
                 outboundVars, socketVars, tenantVars, accounts, pending_users, signupReq,
                 reactReq>>

LoginNext ==
  \/ \E email \in Emails : \E password \in Passwords : \E code \in Codes :
        Signup(email, password, code)
  \/ \E email \in Emails : \E code \in Codes : VerifyRead(1, email, code)
  \/ VerifyInsert(1)
  \/ VerifyDelete(1)
  \/ \E email \in Emails : \E password \in LoginPasswords : Login(email, password)

LoginSpec == Init /\ [][LoginNext]_vars

\* req.user?.id as the account routes read it: a users id or undefined
Principals == {NoUser} \cup 1..MaxEmails

\* POST /deactivate: UPDATE users SET deactivated_at=now() WHERE id=$1
Deactivate(userId) ==
  /\ IF userId = NoUser
     THEN /\ authRes' = AuthAnswer("deactivate", 401, "Not authenticated")
          /\ UNCHANGED accounts
     ELSE /\ accounts' = [i \in DOMAIN accounts |->
                IF i = userId THEN [accounts[i] EXCEPT !.deactivated_at = now]
                ELSE accounts[i]]
          /\ authRes' = AuthAnswer("deactivate", 200, NoText)
  /\ UNCHANGED <<now, engine, users, rateVars, ipVars, routeVars, verifyVars,
                 outboundVars, socketVars, tenantVars, pending_users, signupReq, reactReq>>

\* variant of the grace test that never refuses
GraceExpiredNever(daysSinceDeactivation) == daysSinceDeactivation > MaxTime

\* if (daysSinceDeactivation > 30)
GraceExpired(daysSinceDeactivation) == daysSinceDeactivation > GracePeriod

\* POST /reactivate up to its decision: no principal is answered 401, no
\* users row 404, a row with deactivated_at NULL 400, one deactivated for
\* more than the grace period 400
ReactivateRead(userId) ==
  /\ reactReq.pc = "idle"
  /\ IF userId = NoUser
     THEN /\ authRes' = AuthAnswer("reactivate", 401, "Not authenticated")
          /\ UNCHANGED reactReq
     ELSE IF userId \notin DOMAIN accounts
     THEN /\ authRes' = AuthAnswer("reactivate", 404, "User not found")
          /\ UNCHANGED reactReq
     ELSE IF accounts[userId].deactivated_at = NULL
     THEN /\ authRes' = AuthAnswer("reactivate", 400, "Account is not deactivated")
          /\ UNCHANGED reactReq
     ELSE IF GraceExpired(now - accounts[userId].deactivated_at)
     THEN /\ authRes' = AuthAnswer("reactivate", 400,
                 "Grace period expired. Account cannot be reactivated.")
          /\ UNCHANGED reactReq
     ELSE /\ reactReq' = [pc |-> "write", userId |-> userId]
          /\ UNCHANGED authRes
  /\ UNCHANGED <<now, engine, users, rateVars, ipVars, routeVars, verifyVars,
                 outboundVars, socketVars, tenantVars, accounts, pending_users, signupReq>>

\* UPDATE users SET deactivated_at=NULL WHERE id=$1, then the 200 answer
ReactivateWrite ==
  /\ reactReq.pc = "write"
  /\ accounts' = [accounts EXCEPT ![reactReq.userId].deactivated_at = NULL]
  /\ authRes' = AuthAnswer("reactivate", 200, NoText)
  /\ reactReq' = IdleReactReq
  /\ UNCHANGED <<now, engine, users, rateVars, ipVars, routeVars, verifyVars,
                 outboundVars, socketVars, tenantVars, pending_users, signupReq>>

AccountNext ==
  \/ Tick
  \/ \E email \in Emails : Signup(email, "Passw0rd!", "123456")
  \/ \E email \in Emails : VerifyRead(1, email, "123456")
  \/ VerifyInsert(1)
  \/ VerifyDelete(1)
  \/ \E userId \in Principals : Deactivate(userId)
  \/ \E userId \in Principals : ReactivateRead(userId)
  \/ ReactivateWrite

AccountSpec == Init /\ [][AccountNext]_vars

\* ------------------------------------------------- store notifications
\* Rows of tx_events carry org_id and success; a row of notifications
\* carries org_id, type and related_id.  Socket rooms are named by org:
\* room r stands for `org:${r}`.

EventNames == {"notifications:update", "integrations:update"}

\* IF NEW.success = FALSE THEN ... (mutant: the trigger fires on every row)
TxFailedAny(row) == TRUE

\* IF NEW.success = FALSE THEN ...
TxFailed(row) == row.success = FALSE

\* json_build_object('org_id', NEW.org_id)
NotifyPayload(row) == [org_id |-> row.org_id]

\* const orgId = payload.org_id || payload.org || null
OrgOfPayload(payload) == payload.org_id

\* io.to(`org:${room}`).emit(event): every socket that is in the room at
\* this moment receives the event
Emit(room, event) ==
  /\ bus' = Append(bus, [room |-> room, event |-> event])
  /\ inbox' = [s \in Sockets |->
                 IF room \in rooms[s]
                 THEN Append(inbox[s], [room |-> room, event |-> event])
                 ELSE inbox[s]]

\* INSERT INTO tx_events (org_id, success, ...) and, in the same
\* statement, the trigger trig_notify_on_tx_failure AFTER INSERT FOR EACH
\* ROW.  pg_notify reaches the sessions that are listening at commit.
InsertTxEvent(org, success) ==
  /\ Len(tx_events) < MaxTx
  /\ LET row == [org_id |-> org, success |-> success]
     IN /\ tx_events' = Append(tx_events, row)
        /\ IF TxFailed(row)
           THEN /\ notifications' = Append(notifications,
                     [org_id |-> row.org_id, type |-> "error",
                      related_id |-> Len(tx_events) + 1])
                /\ channel' = IF listener = "listening"
                              THEN Append(channel, NotifyPayload(row))
                              ELSE channel
           ELSE UNCHANGED <<notifications, channel>>
  /\ UNCHANGED <<now, engine, users, rateVars, ipVars, routeVars, verifyVars,
                 outboundVars, tenantVars, authVars, listener, principal,
                 rooms, inbox>>

ListenerStep(from, to) ==
  /\ listener = from
  /\ listener' = to
  /\ UNCHANGED <<now, engine, users, rateVars, ipVars, routeVars, verifyVars,
                 outboundVars, tenantVars, authVars, tx_events, notifications,
                 principal, rooms, inbox>>

\* const client = await pool.connect()
ListenerConnect == ListenerStep("connecting", "connected") /\ UNCHANGED channel

\* pool.connect() rejects: catch (err) { console.error(...) }
ListenerConnectFail == ListenerStep("connecting", "failed") /\ UNCHANGED channel

\* await client.query('LISTEN notifications_channel'); client.on(...)
ListenerListen == ListenerStep("connected", "listening") /\ UNCHANGED channel

\* the LISTEN query rejects: catch (err) { console.error(...) }
ListenerListenFail == ListenerStep("connected", "failed") /\ UNCHANGED channel

\* the connection of the listening client breaks:
\* client.on('error', (err) => console.error('PG listener error', err));
\* what was on its way to the client is lost
ListenerError == ListenerStep("listening", "lost") /\ channel' = <<>>

\* client.on('notification', (msg) => { ... })
ListenerForward ==
  /\ listener = "listening"
  /\ channel # <<>>
  /\ channel' = Tail(channel)
  /\ LET orgId == OrgOfPayload(Head(channel))
     IN IF orgId # NoOrg
        THEN Emit(orgId, "notifications:update")
        ELSE UNCHANGED <<bus, inbox>>
  /\ UNCHANGED <<now, engine, users, rateVars, ipVars, routeVars, integrations,
                 verifier, connReq, boot, outboundVars, tenantVars, authVars,
                 tx_events, notifications, listener, principal, rooms>>

\* socket.on("join-org", (orgId) => { if (orgId) socket.join(`org:${orgId}`) })
JoinOrg(s, orgId) ==
  /\ rooms' = IF orgId # NoOrg
              THEN [rooms EXCEPT ![s] = @ \cup {orgId}]
              ELSE rooms
  /\ UNCHANGED <<now, engine, users, rateVars, ipVars, routeVars, verifyVars,
                 outboundVars, tenantVars, authVars, tx_events, notifications,
                 channel, listener, principal, inbox>>

\* emitToOrg(req, event) of the dashboard router, behind requireAuth:
\* io?.to(`org:${req.user.org}`).emit(event, payload ?? {})
EmitToOrg(org, event) ==
  /\ Len(bus) < MaxEvents
  /\ Emit(org, event)
  /\ UNCHANGED <<now, engine, users, rateVars, ipVars, routeVars, integrations,
                 verifier, connReq, boot, outboundVars, tenantVars, authVars,
                 tx_events, notifications, channel, listener, principal,
                 rooms>>

\* the server has just started; every socket client is logged in as a
\* user of some org
BusInit ==
  /\ EngineIdle /\ PlanIdle /\ users = DefaultUsers
  /\ RateIdle /\ IpIdle /\ RouteIdle /\ VerifyIdle /\ TenantIdle /\ AuthIdle
  /\ OutboundIdle
  /\ tx_events = <<>>
  /\ notifications = <<>>
  /\ channel = <<>>
  /\ listener = "connecting"
  /\ principal \in [Sockets -> 1..MaxOrgs]
  /\ rooms = [s \in Sockets |-> {}]
  /\ inbox = [s \in Sockets |-> <<>>]

\* the steps setupDbListener and its callback take on their own
ListenerRun ==
  \/ ListenerConnect
  \/ ListenerConnectFail
  \/ ListenerListen
  \/ ListenerListenFail
  \/ ListenerForward

BusNext ==
  \/ \E org \in 1..MaxOrgs : \E success \in BOOLEAN : InsertTxEvent(org, success)
  \/ ListenerRun
  \/ ListenerError
  \/ \E s \in Sockets : \E orgId \in 0..MaxOrgs : JoinOrg(s, orgId)
  \/ \E org \in 1..MaxOrgs : \E event \in EventNames : EmitToOrg(org, event)

BusSpec == BusInit /\ [][BusNext]_vars

\* the event loop runs every callback that is ready
BusLiveSpec == BusInit /\ [][BusNext]_vars /\ WF_vars(ListenerRun)


TypeOK ==
  /\ now \in 0..MaxTime
  /\ Len(flows) <= MaxFlows
  /\ Len(flow_executions) <= MaxExec
  /\ Len(executor) = Len(flow_executions)

\* ===================================================================
\* Properties
\* ===================================================================
GraphOfExecution(e) ==
  flow_versions[CHOOSE i \in GraphRows(flow_executions[e].flow_id,
                                       flow_executions[e].flow_version) : TRUE].graph

StepsAfter(e) ==
  {i \in DOMAIN execution_steps' : execution_steps'[i].execution_id = e}

\* C1: once an execution's status is completed, failed or cancelled, no step
\* of the executor and no cancelExecution call changes that status.
C1_TerminalSticky ==
  [][\A e \in ExecIds :
       flow_executions[e].status \in Terminal =>
         flow_executions'[e].status = flow_executions[e].status]_vars

\* C2: once a cancel has turned a running execution to cancelled, the
\* executor inserts no further execution_steps row for that execution (a
\* row is cancelled only through cancelExecution's update, and stays so at
\* least until the executor's final update).
C2_NoStepAfterCancel ==
  [][\A e \in ExecIds :
       flow_executions[e].status = "cancelled" => StepsAfter(e) = StepsOf(e)]_vars

\* C3: cancelExecution on a running execution sets status = cancelled and
\* completed_at; on a completed, failed or cancelled execution it leaves
\* the row (status, completed_at, error_message, execution_time_ms) as it is.
C3_CancelEffect ==
  [][\A e \in ExecIds :
       CancelExecution(e) =>
         IF flow_executions[e].status = "running"
         THEN /\ flow_executions'[e].status = "cancelled"
              /\ flow_executions'[e].completed_at = now
              /\ flow_executions'[e].completed_at # NULL
         ELSE /\ flow_executions'[e].status = flow_executions[e].status
              /\ flow_executions'[e].completed_at = flow_executions[e].completed_at
              /\ flow_executions'[e].error_message = flow_executions[e].error_message
              /\ flow_executions'[e].execution_time_ms
                   = flow_executions[e].execution_time_ms]_vars

\* a cancel took effect while a node was in flight
C3_Witness ==
  \E e \in ExecIds :
     /\ flow_executions[e].status = "cancelled"
     /\ flow_executions[e].completed_at # NULL
     /\ executor[e].pc = "run_node"

\* C4: a flow_executions row has completed_at set iff its status is not running.
C4_CompletedAtIffNotRunning ==
  \A e \in ExecIds :
     (flow_executions[e].completed_at # NULL) <=> (flow_executions[e].status # "running")

\* an execution the executor marked failed after a node threw
C4_Witness ==
  \E e \in ExecIds :
     /\ flow_executions[e].status = "failed"
     /\ flow_executions[e].error_message \in HttpErrors
     /\ flow_executions[e].completed_at # NULL

\* the flow exists, is not soft-deleted and has a version
Startable(f) ==
  /\ f \in DOMAIN flows
  /\ ~flows[f].is_deleted
  /\ VersionsOf(f) # {}

C6_CycleRejected ==
  \A e \in ExecIds :
     (executor[e].pc = "done" /\ GraphOfExecution(e).wellFormed
        /\ HasCycle(GraphOfExecution(e))) =>
       /\ flow_executions[e].status = "failed"
       /\ MentionsCycles(flow_executions[e].error_message)
       /\ StepsOf(e) = {}

\* C8: a step is failed only with the thrown error's message; its node has
\* no second step, no step of the execution comes after it, the executor
\* goes straight to its catch block, and the execution ends failed with the
\* same message.
C8_FailFast ==
  \A s \in DOMAIN execution_steps :
     execution_steps[s].status = "failed" =>
       LET e == execution_steps[s].execution_id IN
         /\ execution_steps[s].error_message \in HttpErrors
         /\ Cardinality({t \in StepsOf(e) :
              execution_steps[t].node_id = execution_steps[s].node_id}) = 1
         /\ \A t \in StepsOf(e) : t <= s
         /\ executor[e].pc \in {"fail", "done"}
         /\ executor[e].error = execution_steps[s].error_message
         /\ executor[e].pc = "done" =>
              /\ flow_executions[e].status = "failed"
              /\ flow_executions[e].error_message = execution_steps[s].error_message

\* the second node of the chain threw: the execution is failed, the third
\* node has no step
C8_Witness ==
  \E s \in DOMAIN execution_steps :
     /\ execution_steps[s].status = "failed"
     /\ executor[execution_steps[s].execution_id].pc = "done"
     /\ Len(GraphOfExecution(execution_steps[s].execution_id).nodes) = 3
     /\ Cardinality(StepsOf(execution_steps[s].execution_id)) = 2

C10_StepsCompleteBeforeExecution ==
  \A e \in ExecIds :
     flow_executions[e].status = "completed" =>
       \A t \in StepsOf(e) :
          execution_steps[t].completed_at <= flow_executions[e].completed_at

\* a completed execution whose steps completed at different times, the last
\* of them before the final update
C10_Witness ==
  \E e \in ExecIds :
     /\ flow_executions[e].status = "completed"
     /\ \E t, u \in StepsOf(e) :
          /\ execution_steps[t].completed_at < execution_steps[u].completed_at
          /\ execution_steps[u].completed_at < flow_executions[e].completed_at

\* version numbers stored for flow f
VersionNumbers(f) == {flow_versions[i].version : i \in VersionsOf(f)}

\* C11: every flow_executions row's (flow_id, flow_version) is a stored
\* version of that flow; the version startExecution reads is the highest one
\* stored for the flow at that read, and the row it inserts carries the
\* version it read, whatever versions are created in between.
C11_ExecutionVersion ==
  /\ [](\A e \in ExecIds :
          GraphRows(flow_executions[e].flow_id,
                    flow_executions[e].flow_version) # {})
  /\ [][(startReq.pc = "idle" /\ startReq'.pc = "insert") =>
          (/\ startReq'.latest_version \in VersionNumbers(startReq'.flowId)
           /\ \A v \in VersionNumbers(startReq'.flowId) :
                  v <= startReq'.latest_version)]_vars
  /\ [][(Len(flow_executions') = Len(flow_executions) + 1) =>
          (/\ startReq.pc = "insert"
           /\ flow_executions'[Len(flow_executions')].flow_id = startReq.flowId
           /\ flow_executions'[Len(flow_executions')].flow_version
                = startReq.latest_version)]_vars

\* an execution was started on version 1 of a flow that has a version 2
C11_Witness ==
  \E e \in ExecIds :
     /\ flow_executions[e].flow_version = 1
     /\ 2 \in VersionNumbers(flow_executions[e].flow_id)
     /\ flow_executions[e].status = "running"
     /\ executor[e].pc = "load"

\* C20: the versions stored for a flow are 1..n, each once, and an inserted
\* row carries the highest stored version of its flow plus one, also with
\* several POST /:id/versions requests of one flow in flight.
C20_VersionsGapFree ==
  /\ [](\A f \in 1..MaxFlows :
          /\ VersionNumbers(f) = 1..Cardinality(VersionsOf(f))
          /\ \A i, j \in VersionsOf(f) :
                flow_versions[i].version = flow_versions[j].version => i = j)
  /\ [][(Len(flow_versions') = Len(flow_versions) + 1) =>
          (\A v \in VersionNumbers(flow_versions'[Len(flow_versions')].flow_id)
                      \cup {0} :
              /\ v < flow_versions'[Len(flow_versions')].version
              /\ \/ flow_versions'[Len(flow_versions')].version = v + 1
                 \/ v + 1 \in VersionNumbers(
                                flow_versions'[Len(flow_versions')].flow_id))]_vars

\* two requests computed the same next version; one insert was refused
C20_Witness ==
  /\ versionReq[1].code = 201
  /\ versionReq[2].code = 500
  /\ \E f \in 1..MaxFlows : Cardinality(VersionsOf(f)) = 1

\* ------------------------------------------------------------ rate gate
RequestsOf(u) == {r \in 1..MaxRequests : rateReq[r].user = u}

C17_ExactlyNAdmitted ==
  \A u \in 1..MaxUsers :
     (/\ now < Hour
      /\ Cardinality(RequestsOf(u)) = users[u].rate_limit + 1
      /\ \A r \in RequestsOf(u) : rateReq[r].pc = "done") =>
        /\ Cardinality({r \in RequestsOf(u) : rateReq[r].code = 200})
             = users[u].rate_limit
        /\ Cardinality(SamplesSince(u, -1)) = users[u].rate_limit
        /\ Cardinality({r \in RequestsOf(u) : rateReq[r].code = 429}) = 1

\* ------------------------------------------------------------ IP gate
\* the client address as the claim derives it: first X-Forwarded-For hop,
\* else X-Real-IP, else the socket peer, an IPv4-mapped address reduced to
\* its IPv4 part
MappedToIPv4(req) ==
  LET raw == IF req.xff # <<>> /\ req.xff[1] # Empty THEN req.xff[1]
             ELSE IF req.realIp # Empty THEN req.realIp ELSE req.ip
  IN Ip("", raw.rest)

Allowlisted(u, ip) ==
  \E row \in ip_whitelist : row.user_id = u /\ row.ip_address = ip

GateOn ==
  /\ ipReq.pc = "done"
  /\ ipReq.user # Anonymous
  /\ users[ipReq.user].allow_ip_whitelist

LoopbackToIPv4(req) ==
  IF MappedToIPv4(req) = Ip("", "::1") THEN Ip("", "127.0.0.1")
  ELSE MappedToIPv4(req)

PrincipalRouters ==
  {"flows", "executions", "dashboard", "connections", "connectors", "mtn",
   "ipWhitelist", "flutterwave"}

\* C19: a request reaches a handler of the flows, executions, dashboard,
\* connections, connectors, mtn, ip-whitelist or flutterwave routes only
\* after requireAuth, ipWhitelistMiddleware and rateLimitMiddleware have
\* all let it pass.
C19_GateBeforeHandlers ==
  (routeReq.pc = "done" /\ routeReq.router \in PrincipalRouters) =>
     /\ Range(AllGates) \subseteq routeReq.passed
     /\ routeReq.token /\ routeReq.ipOk /\ routeReq.quotaOk

\* ------------------------------------------------------------ outbound
\* localhost, loopback 127.0.0.0/8 and ::1, link-local 169.254.0.0/16,
\* RFC1918 10/8, 172.16/12 and 192.168/16
ReservedHost(host) ==
  \/ host.name \in {"localhost", "[::1]"}
  \/ host.ip[1] = 127
  \/ host.ip[1] = 10
  \/ host.ip[1] = 172 /\ host.ip[2] \in 16..31
  \/ host.ip[1] = 192 /\ host.ip[2] = 168
  \/ host.ip[1] = 169 /\ host.ip[2] = 254

\* C14: neither the HTTP action node nor the verification probe sends a
\* request to a URL whose host is localhost, loopback, link-local or RFC1918,
\* or whose scheme is not http or https.
C14_NoReservedTarget ==
  (outbound.pc = "done" /\ outbound.issued) =>
     /\ outbound.target.scheme \in {"http", "https"}
     /\ ~ReservedHost(outbound.target.host)

C13_ActiveOnlyAfterProbe ==
  [][\A i \in DOMAIN integrations' :
       (/\ integrations'[i].status = "active"
        /\ i \in DOMAIN integrations => integrations[i].status # "active") =>
          \E w \in DOMAIN verifier :
             /\ verifier[w].integrationId = i
             /\ verifier[w].pc = "fetch"
             /\ verifier'[w].pc = "notify"
             /\ verifier'[w].outcome = "2xx"]_vars

\* C15: the step that starts a verification (the row written pending, by
\* POST /integrations or by POST /integrations/:id/verify) emits
\* integrations:update on the org's room, and so does the step that ends a
\* verifier task, on each of its paths.
C15_BroadcastBothTransitions ==
  [][/\ Len(verifier') = Len(verifier) + 1 =>
          bus' = Append(bus, UpdateEvent(verifier'[Len(verifier')].orgId))
     /\ \A w \in DOMAIN verifier :
          (verifier[w].pc # "done" /\ verifier'[w].pc = "done") =>
             bus' = Append(bus, UpdateEvent(verifier[w].orgId))]_vars

\* the org that owns execution e through its flow (NoOrg when no row joins)
OrgOfExecution(e) ==
  IF e \in ExecIds /\ flow_executions[e].flow_id \in DOMAIN flows
  THEN flows[flow_executions[e].flow_id].org_id
  ELSE NoOrg

\* C21: a request of a principal of org A never returns an execution (or its
\* steps or logs) of a flow of another org B, never changes such an
\* execution, and never starts an execution on a flow of org B.
C21_TenantIsolation ==
  [][/\ (apiRes' # apiRes) =>
          (\A e \in apiRes'.executions : OrgOfExecution(e) = reqUser)
     /\ \A e \in ExecIds :
          (flow_executions'[e] # flow_executions[e]) =>
             (OrgOfExecution(e) = reqUser)
     /\ (Len(flow_executions') > Len(flow_executions)) =>
          (flows[startReq.flowId].org_id = reqUser)]_vars

\* C22: DELETE /:executionId by a principal whose org does not own the
\* execution's flow answers 404 and changes no table; by the owner's org it
\* deletes the execution's logs, then its steps, then the execution row, each
\* in its own store call and in that order, and no other request removes an
\* execution row.
C22_DeleteExecution ==
  [][/\ \A e \in 1..MaxExec :
          (DeleteCheck(e) /\ OrgOfExecution(e) # reqUser) =>
             (/\ apiRes'.op = "deleteExecution"
              /\ apiRes'.code = 404
              /\ delReq' = delReq
              /\ flow_executions' = flow_executions
              /\ execution_steps' = execution_steps
              /\ execution_logs' = execution_logs)
     /\ (delReq.pc = "idle" /\ delReq' # delReq) =>
          (/\ delReq'.pc = "logs"
           /\ OrgOfExecution(delReq'.executionId) = reqUser
           /\ flow_executions' = flow_executions
           /\ execution_steps' = execution_steps
           /\ execution_logs' = execution_logs)
     /\ (delReq.pc = "logs" /\ delReq' # delReq) =>
          (/\ delReq'.pc = "steps"
           /\ \A i \in DOMAIN execution_logs' :
                 execution_logs'[i].execution_id # delReq.executionId
           /\ flow_executions' = flow_executions
           /\ execution_steps' = execution_steps)
     /\ (delReq.pc = "steps" /\ delReq' # delReq) =>
          (/\ delReq'.pc = "row"
           /\ \A i \in DOMAIN execution_steps' :
                 execution_steps'[i].execution_id # delReq.executionId
           /\ flow_executions' = flow_executions
           /\ execution_logs' = execution_logs)
     /\ (delReq.pc = "row" /\ delReq' # delReq) =>
          (/\ delReq'.pc = "idle"
           /\ flow_executions'[delReq.executionId] = NoExecution
           /\ apiRes'.op = "deleteExecution")
     /\ \A e \in ExecIds :
          (flow_executions[e] # NoExecution /\ flow_executions'[e] = NoExecution) =>
             (delReq.pc = "row" /\ delReq.executionId = e)]_vars

\* a finished execution deleted by its owner's org, while no other row went
C22_Witness ==
  /\ apiRes.op = "deleteExecution"
  /\ apiRes.code = 200
  /\ \E e \in ExecIds : flow_executions[e] = NoExecution
  /\ execution_steps = <<>>
  /\ flows[1].org_id = reqUser


\* C23: once a flow is soft-deleted, GET /flows, GET /flows/:id and
\* GET /flows/:id/versions do not return it, a request to add a version to it
\* is refused, its status does not change, and startExecution on it answers
\* an error and inserts no execution; and a DELETE /flows/:id only ever
\* soft-deletes a flow of the caller's org.
C23_SoftDelete ==
  [][/\ (apiRes' # apiRes) =>
          (\A f \in apiRes'.flows : ~flows[f].is_deleted)
     /\ \A f \in DOMAIN flows :
          flows[f].is_deleted =>
            (/\ \A r \in 1..MaxVersionReqs :
                   ~(/\ versionReq[r].pc = "idle"
                     /\ versionReq'[r].pc = "max"
                     /\ versionReq'[r].flowId = f)
             /\ flows'[f].status = flows[f].status
             /\ StartRead(f) =>
                  (response'.kind = "error" /\ flow_executions' = flow_executions))
     /\ \A f \in DOMAIN flows :
          (~flows[f].is_deleted /\ flows'[f].is_deleted) =>
             (flows[f].org_id = reqUser)]_vars

\* C24: PATCH /flows/:id/status on a non-deleted flow sets the status; for
\* active it then starts exactly one execution of the flow's latest version
\* with trigger_type deploy, for draft and inactive it starts none; when the
\* start fails (no versions, flow deleted meanwhile) the status stays as set
\* and the request is still answered 200.
C24_DeployOnActive ==
  [][/\ \A f \in DOMAIN flows : \A status \in Statuses :
          (StatusUpdate(f, status) /\ ~flows[f].is_deleted) =>
             (/\ flows'[f].status = status
              /\ flow_executions' = flow_executions
              /\ IF status = "active"
                 THEN /\ startReq'.pc = "deploy"
                      /\ startReq'.flowId = f
                      /\ startReq'.trigger_type = "deploy"
                 ELSE /\ startReq' = startReq
                      /\ response' = StatusResponse(f, NULL))
     /\ (startReq.pc = "deploy" /\ startReq' # startReq) =>
          (/\ flows' = flows
           /\ flow_executions' = flow_executions
           /\ IF Startable(startReq.flowId)
              THEN /\ startReq'.pc = "deploy_insert"
                   /\ startReq'.flowId = startReq.flowId
                   /\ startReq'.trigger_type = "deploy"
                   /\ startReq'.latest_version \in VersionNumbers(startReq.flowId)
                   /\ \A v \in VersionNumbers(startReq.flowId) :
                         v <= startReq'.latest_version
              ELSE /\ startReq'.pc = "idle"
                   /\ response' = StatusResponse(startReq.flowId, NULL)
                   /\ response'.code = 200)
     /\ (startReq.pc = "deploy_insert" /\ startReq' # startReq) =>
          (/\ flows' = flows
           /\ Len(flow_executions') = Len(flow_executions) + 1
           /\ SubSeq(flow_executions', 1, Len(flow_executions)) = flow_executions
           /\ flow_executions'[Len(flow_executions')].flow_id = startReq.flowId
           /\ flow_executions'[Len(flow_executions')].flow_version
                = startReq.latest_version
           /\ flow_executions'[Len(flow_executions')].trigger_type = "deploy"
           /\ flow_executions'[Len(flow_executions')].status = "running"
           /\ response'.code = 200
           /\ response'.executionId = Len(flow_executions')
           /\ startReq'.pc = "idle")
     /\ (/\ Len(flow_executions') > Len(flow_executions)
         /\ flow_executions'[Len(flow_executions')].trigger_type = "deploy") =>
          (startReq.pc = "deploy_insert")]_vars

\* a flow set to active whose deploy execution was started
C24_Witness ==
  /\ response.kind = "status"
  /\ response.executionId \in ExecIds
  /\ flow_executions[response.executionId].trigger_type = "deploy"
  /\ flow_executions[response.executionId].flow_id = response.flowId
  /\ flows[response.flowId].status = "active"


\* C25: verification of a signup creates the users row and deletes the
\* pending_users row as one step: no state has both a users row and a
\* pending_users row for the same email, and no email ever has two users rows.
C25_VerifyAtomic ==
  \A email \in Emails :
     /\ ~(AccountsOf(email) # {} /\ PendingOf(email) # {})
     /\ Cardinality(AccountsOf(email)) <= 1


\* C26: two login attempts with the same password, one for an email that has
\* a users row and one for an email that has none, that both fail are
\* answered with the same status code and the same body.
C26_LoginIndistinguishable ==
  \A known \in Emails : \A unknown \in Emails : \A password \in LoginPasswords :
     (/\ AccountsOf(known) # {}
      /\ AccountsOf(unknown) = {}
      /\ LoginAnswer(known, password).code # 200
      /\ LoginAnswer(unknown, password).code # 200) =>
        (/\ LoginAnswer(known, password).code = LoginAnswer(unknown, password).code
         /\ LoginAnswer(known, password).error = LoginAnswer(unknown, password).error)


\* C27: POST /reactivate clears deactivated_at only for a user whose
\* deactivated_at it read as set and at most 30 days old; for a user
\* deactivated for more than 30 days, and for a user who is not deactivated,
\* it answers a refusal and changes no row; and nothing else clears
\* deactivated_at.
C27_Reactivation ==
  [][/\ \A u \in DOMAIN accounts :
          (accounts[u].deactivated_at # NULL /\ accounts'[u].deactivated_at = NULL) =>
             (reactReq.pc = "write" /\ reactReq.userId = u)
     /\ (reactReq.pc = "idle" /\ reactReq'.pc = "write") =>
          (/\ reactReq'.userId \in DOMAIN accounts
           /\ accounts[reactReq'.userId].deactivated_at # NULL
           /\ now - accounts[reactReq'.userId].deactivated_at <= GracePeriod
           /\ accounts' = accounts)
     /\ \A u \in DOMAIN accounts :
          (/\ ReactivateRead(u)
           /\ \/ accounts[u].deactivated_at = NULL
              \/ now - accounts[u].deactivated_at > GracePeriod) =>
             (/\ authRes'.route = "reactivate"
              /\ authRes'.code = 400
              /\ reactReq'.pc = "idle"
              /\ accounts' = accounts)]_vars

\* a user deactivated within the grace period has been reactivated
C27_Witness ==
  /\ authRes.route = "reactivate"
  /\ authRes.code = 200
  /\ \E u \in DOMAIN accounts : accounts[u].deactivated_at = NULL
  /\ now > 0


\* a step that inserts a row of tx_events: the trigger has added an error
\* notification of the row's org and queued its payload for a listening
\* client if and only if the row has success = FALSE
FailureNotified ==
  Len(tx_events') = Len(tx_events) + 1 =>
    LET row == tx_events'[Len(tx_events')]
    IN /\ bus' = bus
       /\ IF row.success
          THEN notifications' = notifications /\ channel' = channel
          ELSE /\ notifications' = Append(notifications,
                    [org_id |-> row.org_id, type |-> "error",
                     related_id |-> Len(tx_events')])
               /\ listener = "listening" =>
                    channel' = Append(channel, [org_id |-> row.org_id])

\* a payload leaves the channel of a client that stays connected only by
\* one notifications:update emitted to the room of the payload's org
PayloadForwarded ==
  (Len(channel') < Len(channel) /\ listener' = "listening") =>
    /\ channel' = Tail(channel)
    /\ bus' = Append(bus, [room |-> Head(channel).org_id,
                           event |-> "notifications:update"])

\* C28: every insert of a tx_events row with success = FALSE inserts one
\* error notification for the same org and, while the listener is
\* connected, ends in one notifications:update emitted to the room of that
\* org and to no other room; a row with success = TRUE produces neither a
\* notification nor an event.
C28_FailureNotification ==
  /\ [][FailureNotified /\ PayloadForwarded]_vars
  /\ (channel # <<>>) ~> (channel = <<>>)

\* two failed rows of two orgs were inserted while the listener was
\* connected, and both events have gone out to the rooms of their orgs
C28_Witness ==
  /\ listener = "listening"
  /\ channel = <<>>
  /\ tx_events = <<[org_id |-> 1, success |-> FALSE],
                   [org_id |-> 2, success |-> FALSE]>>
  /\ Len(notifications) = 2
  /\ bus = <<[room |-> 1, event |-> "notifications:update"],
             [room |-> 2, event |-> "notifications:update"]>>

\* C29: after a connection error or a failed initial setup the listener
\* eventually re-establishes LISTEN on notifications_channel.
C29_ListenerReconnects ==
  (listener \in {"failed", "lost"}) ~> (listener = "listening")

\* C30: a socket client is a member of no room but the room of its
\* principal's org, and it receives notifications:update and
\* integrations:update events of that org only.
C30_TenantScoped ==
  \A s \in Sockets :
    /\ rooms[s] \subseteq {principal[s]}
    /\ \A i \in DOMAIN inbox[s] : inbox[s][i].room = principal[s]



\* the rows a check for p is about
NamedFor(p) == {i \in DOMAIN integrations :
                  Lower(integrations[i].name) = p /\ ~integrations[i].deleted}

\* the step of a check: its rows are active when the credentials are
\* present and the probe succeeded, and error otherwise
StartupWrite ==
  \A p \in Providers :
    (boot'.pc # boot.pc /\ boot.pc = (IF p = "flutterwave" THEN p ELSE "mtn")) =>
      \A i \in NamedFor(p) :
        integrations'[i].status =
          IF boot.env[p] /\ boot'.probed[p] = "ok" THEN "active" ELSE "error"

\* row i passed the startup probe of its provider
PassedStartup(i) ==
  /\ Lower(integrations[i].name) \in Providers
  /\ boot.env[Lower(integrations[i].name)]
  /\ boot.probed[Lower(integrations[i].name)] = "ok"

\* a verification started by a user in this process wrote row i active
VerifiedSinceStart(i) ==
  \E w \in DOMAIN verifier :
    verifier[w].integrationId = i /\ verifier[w].wrote = "active"

TasksOf(i) == {w \in DOMAIN verifier : verifier[w].integrationId = i}

\* a step of a verification changes at most status and last_checked, and
\* only of the row the verification is about
OnlyStatusAndChecked ==
  /\ DOMAIN integrations' = DOMAIN integrations
  /\ \A i \in DOMAIN integrations :
       /\ integrations'[i] =
            [integrations[i] EXCEPT !.status = integrations'[i].status,
                                    !.last_checked = integrations'[i].last_checked]
       /\ integrations'[i] # integrations[i] =>
            \E w \in DOMAIN verifier' :
               /\ verifier'[w].integrationId = i
               /\ w \in DOMAIN verifier => verifier'[w] # verifier[w]

\* C32: re-running the verification of an integration that is active, with
\* a probe that again returns 2xx, leaves the row active and changes only
\* its last_checked; no other column and no other row changes.
C32_ReverifyIdempotent ==
  /\ [][OnlyStatusAndChecked]_vars
  /\ [](\A w \in DOMAIN verifier :
          (/\ TasksOf(verifier[w].integrationId) = {w}
           /\ verifier[w].outcome = "2xx"
           /\ verifier[w].pc \in {"notify", "done"}) =>
             integrations[verifier[w].integrationId].status = "active")

\* the active row has been verified once more with a 2xx probe at a later
\* time: it is active again and carries the new last_checked
C32_Witness ==
  /\ Len(verifier) = 1
  /\ verifier[1].integrationId = 1
  /\ verifier[1].outcome = "2xx"
  /\ verifier[1].pc = "done"
  /\ integrations[1].status = "active"
  /\ integrations[1].last_checked > 0
  /\ integrations[2].last_checked = 0



\* C33: an execution whose task was still under way when its process shut
\* down is marked failed with error_message "shutdown"; no flow_executions
\* row is left in status running by a process that shut down.
C33_ShutdownMarksFailed ==
  \A e \in DOMAIN executor :
    executor[e].pc = "killed" =>
      /\ flow_executions[e].status = "failed"
      /\ flow_executions[e].error_message = "shutdown"



\* the step row of the node that task e is running
RunningStep(e) == execution_steps'[executor[e].stepId]

\* the task of e leaves an http action: either a response arrived, the
\* step is completed with the response as output (an error-shaped output
\* for a status outside 2xx) and the loop goes on with the next node, or
\* no response arrived, the step is failed and the task is in execute's
\* catch block
HttpActionOutcome(e) ==
  (/\ executor[e].pc = "run_node"
   /\ executor'[e].pc \notin {"run_node", "killed"}
   /\ CurrentNode(e).type = "action") =>
     \/ /\ RunningStep(e).status = "completed"
        /\ RunningStep(e).error_message = NoText
        /\ RunningStep(e).output_data.status \in HttpStatuses
        /\ RunningStep(e).output_data.kind =
             IF RunningStep(e).output_data.status \in 200..299
             THEN "data" ELSE "error"
        /\ executor'[e].nodeOutputs[CurrentNode(e).id] = RunningStep(e).output_data
        /\ executor'[e].idx = executor[e].idx + 1
        /\ executor'[e].pc =
             IF executor[e].idx = Len(executor[e].plan)
             THEN "finalize" ELSE "insert_step"
     \/ /\ RunningStep(e).status = "failed"
        /\ RunningStep(e).error_message \in HttpErrors
        /\ RunningStep(e).output_data = NoData
        /\ executor'[e].pc = "fail"
        /\ executor'[e].error = RunningStep(e).error_message

\* C34: a response with a non-2xx status gives a completed step whose
\* output is {status, error, headers} and the plan goes on with the next
\* node; a network error or timeout (no response) fails the step and the
\* execution.
C34_HttpAsymmetry ==
  /\ [][\A e \in DOMAIN executor : HttpActionOutcome(e)]_vars
  /\ [](\A e \in DOMAIN executor :
          (/\ executor[e].pc = "done"
           /\ \E i \in DOMAIN execution_steps :
                /\ execution_steps[i].execution_id = e
                /\ execution_steps[i].status = "failed") =>
             /\ flow_executions[e].status = "failed"
             /\ flow_executions[e].error_message \in HttpErrors)

\* the http action of the chain got a 500 response: its step is completed
\* with the error-shaped output, the end node ran after it and the
\* execution is completed
C34_Witness ==
  /\ Len(execution_steps) = 3
  /\ execution_steps[2].node_type = "action"
  /\ execution_steps[2].status = "completed"
  /\ execution_steps[2].output_data = [kind |-> "error", status |-> 500]
  /\ execution_steps[3].status = "completed"
  /\ flow_executions[1].status = "completed"



\* the completed steps of execution e for node id
CompletedStepsOf(steps, e, id) ==
  {i \in DOMAIN steps : /\ steps[i].execution_id = e
                        /\ steps[i].node_id = id
                        /\ steps[i].status = "completed"}

\* the sources of the edges of execution e's graph that end in node id
PredecessorsOf(e, id) ==
  {executor[e].graph.edges[i].from :
     i \in {j \in DOMAIN executor[e].graph.edges :
              executor[e].graph.edges[j].to = id}}

\* a step row is inserted only after every predecessor of its node has a
\* completed step in the same execution
PredecessorsCompleted ==
  Len(execution_steps') = Len(execution_steps) + 1 =>
    LET row == execution_steps'[Len(execution_steps')]
    IN \A p \in PredecessorsOf(row.execution_id, row.node_id) :
         CompletedStepsOf(execution_steps, row.execution_id, p) # {}

\* the input map written with a step holds the output of every
\* predecessor under the predecessor's node id
InputsComplete ==
  \A i \in DOMAIN execution_steps :
    (execution_steps[i].status = "completed"
       /\ execution_steps[i].execution_id \in DOMAIN executor) =>
      \A p \in PredecessorsOf(execution_steps[i].execution_id,
                              execution_steps[i].node_id) :
        /\ p \in DOMAIN execution_steps[i].input_data
        /\ \E j \in CompletedStepsOf(execution_steps,
                                     execution_steps[i].execution_id, p) :
             execution_steps[i].input_data[p] = execution_steps[j].output_data

\* C35: when a node's step is inserted every predecessor of the node has a
\* completed step in the same execution, and the node's input map contains
\* for every incoming edge the predecessor's output keyed by the
\* predecessor's node id.
C35_InputsFromPredecessors ==
  [][PredecessorsCompleted]_vars /\ []InputsComplete



\* positions in graph.nodes of the sources of the edges into the node at
\* position at
SourcesOf(graph, at) ==
  {FindNode(graph.nodes, graph.edges[k].from) :
     k \in {j \in DOMAIN graph.edges : graph.edges[j].to = graph.nodes[at].id}}

\* the number of plan entries after which the node at position at has
\* in-degree zero: 0 for a node without incoming edges, else the plan index
\* of the last of its sources
ReadyAfter(graph, plan, at) ==
  IF SourcesOf(graph, at) = {} THEN 0
  ELSE CHOOSE m \in DOMAIN plan :
         /\ plan[m] \in SourcesOf(graph, at)
         /\ \A src \in SourcesOf(graph, at) :
              \E j \in 1..m : plan[j] = src

\* C36: whenever two nodes both have in-degree zero at the moment one of
\* them is chosen, the node that appears earlier in graph.nodes is placed
\* earlier in the plan.
C36_TiesByInsertionOrder ==
  (PlanRan /\ planOut.ok) =>
    \A k, l \in DOMAIN planOut.plan :
      (k < l /\ ReadyAfter(planGraph, planOut.plan, planOut.plan[l]) < k) =>
         planOut.plan[k] < planOut.plan[l]

\* C36, amended: the plan is in the order in which the nodes reached
\* in-degree zero; the nodes that have no incoming edge come first, in
\* the order of graph.nodes.
C36_TiesByReadiness ==
  (PlanRan /\ planOut.ok) =>
    \A k, l \in DOMAIN planOut.plan :
      k < l =>
        /\ ReadyAfter(planGraph, planOut.plan, planOut.plan[k])
             <= ReadyAfter(planGraph, planOut.plan, planOut.plan[l])
        /\ ReadyAfter(planGraph, planOut.plan, planOut.plan[l]) = 0 =>
             planOut.plan[k] < planOut.plan[l]

\* nodes 3, 2, 1 in this order with the edge 2 -> 3: node 3 is ready when
\* node 1 is chosen and stands before it in graph.nodes, and the plan is
\* 2, 1, 3
C36_Witness ==
  /\ PlanRan
  /\ planOut.ok
  /\ planGraph.nodes = <<[id |-> 3, type |-> "action"],
                         [id |-> 2, type |-> "action"],
                         [id |-> 1, type |-> "action"]>>
  /\ planGraph.edges = <<[from |-> 2, to |-> 3]>>
  /\ planOut.plan = <<2, 3, 1>>


\* ------------------------------------------------ overlapping verification
\* the verifyAfterDelay tasks started for integration i
WorkersOf(i) == {w \in DOMAIN verifier : verifier[w].integrationId = i}

\* the task has issued its UPDATE, or has ended
Finished(w) == verifier[w].pc \in {"notify", "done"}

AllFinished(i) == WorkersOf(i) # {} /\ \A w \in WorkersOf(i) : Finished(w)

\* C37: with any overlap of verifications of one integration, once every
\* task has finished the row is active or error, never pending; the UPDATE
\* of a task puts that task's outcome on the row whatever the other tasks
\* wrote before, and the row keeps the outcome of the last UPDATE until a
\* new verification is started.
C37_LastWriteWins ==
  /\ [](\A i \in DOMAIN integrations :
          AllFinished(i) => integrations[i].status \in {"active", "error"})
  /\ [][\A i \in DOMAIN integrations : \A w \in WorkersOf(i) :
          (~Finished(w) /\ Finished(w)') =>
             /\ verifier'[w].wrote \in {"active", "error"}
             /\ integrations'[i].status = verifier'[w].wrote]_vars
  /\ [][\A i \in DOMAIN integrations :
          (AllFinished(i) /\ integrations'[i].status # integrations[i].status)
             => Len(verifier') > Len(verifier)]_vars

\* two verifications of row 1 overlapped; the one started second wrote
\* error first, the one started first wrote active last
C37_Witness ==
  /\ Len(verifier) = 2
  /\ WorkersOf(1) = {1, 2}
  /\ verifier[1].wrote = "active" /\ verifier[1].pc = "done"
  /\ verifier[2].wrote = "error" /\ verifier[2].pc = "done"
  /\ integrations[1].status = "active"

\* ------------------------------------------------- deletion under verification
\* the verifyAfterDelay task w takes a step
WorkerStep(w) == w \in DOMAIN verifier /\ verifier'[w] # verifier[w]

\* C38: a verification task whose integration was deleted meanwhile leaves
\* the integrations table as it is, so the row stays absent; and a task
\* never adds a row nor changes a row other than its own.
C38_DeletedStaysDeleted ==
  [][\A w \in DOMAIN verifier : WorkerStep(w) =>
        /\ Len(integrations') = Len(integrations)
        /\ integrations[verifier[w].integrationId].deleted
              => integrations' = integrations
        /\ \A i \in DOMAIN integrations :
              i # verifier[w].integrationId => integrations'[i] = integrations[i]
     ]_vars

\* row 1 was deleted between the pending write of its verification and the
\* task's UPDATE: the task probed, got 2xx, ended, and the row is as deleted
C38_Witness ==
  /\ Len(verifier) = 1
  /\ verifier[1].integrationId = 1
  /\ verifier[1].wrote = "active" /\ verifier[1].pc = "done"
  /\ integrations[1].deleted /\ integrations[1].status = "pending"
  /\ ~integrations[2].deleted

\* --------------------------------------------- deletion of a running execution
\* C39: once the flow_executions row of an execution is deleted, no row of
\* execution_steps or execution_logs references it, in this and in every
\* later state, while the execution's executor goes on issuing step and log
\* writes.
C39_NoRowsAfterDelete ==
  \A e \in ExecIds :
     ~ExecutionStored(e) => (StepsOf(e) = {} /\ LogsOf(e) = {})

\* the owner deleted execution 1 while its executor was between two nodes;
\* the executor's next step INSERT was refused and the executor ended
C39_Witness ==
  /\ ~ExecutionStored(1)
  /\ apiRes.op = "deleteExecution" /\ apiRes.code = 200
  /\ executor[1].pc = "done"
  /\ executor[1].error = ForeignKeyMessage
  /\ executor[1].idx = 2

\* ------------------------------------------------------------ repeated signup
\* C40: after POST /signup was answered 201 for an email, the pending_users
\* row of that email holds the hash of the password and the verification
\* code of that request, also when the email had a pending row before.
C40_LatestSignupHeld ==
  [][\A email \in Emails : \A password \in Passwords : \A code \in Codes :
        (Signup(email, password, code) /\ authRes'.code = 201) =>
           \A p \in pending_users' :
              p.email = email =>
                 /\ p.verification_code = code
                 /\ p.password_hash = Hash(password)]_vars

====
